---- MODULE Spec2Model ----
(***************************************************************************)
(* Movie rating system: the entity store (directors, genres, movies,       *)
(* movie-genre links, ratings), the repository operations on it and the    *)
(* service operations that validate and then call the repositories.        *)
(*                                                                         *)
(* Every service call runs on one session and commits before it returns,   *)
(* so one call is one step.  Strings are sequences of one-character        *)
(* strings, so that strip() and lower() are computed, not assumed.  An     *)
(* Optional value is <<>> (None) or <<v>> (a value).                       *)
(***************************************************************************)
EXTENDS Integers, Sequences, FiniteSets, TLC

VARIABLES
    directors,     \* id -> [name, birth_year, description]          (table directors)
    genres,        \* id -> [name, description]                     (table genres)
    movies,        \* id -> [title, director_id, release_year, cast] (table movies)
    movie_genres,  \* set of <<movie_id, genre_id>>                  (table movie_genres)
    ratings,       \* id -> [movie_id, score]                       (table movie_ratings)
    seq,           \* last id handed out by each table's primary-key sequence
    last,          \* the last call: [op, id, outcome, field, ret]
    sessions,      \* the storage sessions acquired so far: "open" or "closed"
    request,       \* the HTTP request being handled and its position
    transaction,   \* the transaction of the session the last write ran on
    inflight       \* the writes of requests that passed their checks and have not committed

vars == <<directors, genres, movies, movie_genres, ratings, seq, last, sessions, request,
          transaction, inflight>>

\* The committed database as one value; the operations below are functions
\* from a database (and their arguments) to an outcome and a database.
DB ==
    [directors |-> directors, genres |-> genres, movies |-> movies,
     movie_genres |-> movie_genres, ratings |-> ratings, seq |-> seq]

----------------------------------------------------------------------------
(* Bounds of the model: how many ids each primary-key sequence hands out.  *)

MaxDirectors == 2

MaxGenres == 2

MaxMovies == 2

MaxRatings == 3

\* ratings created while the cascades are explored
MaxCascadeRatings == 2

\* storage sessions acquired in a run
MaxSessions == 4

----------------------------------------------------------------------------
(* Python values *)

None == <<>>

Some(v) == <<v>>

IsNone(o) == o = <<>>

Val(o) == o[1]

\* bool(x) of an Optional[int]: None and 0 are falsy
TruthyInt(o) == ~IsNone(o) /\ Val(o) # 0

RECURSIVE lstrip(_)
lstrip(s) == IF s # <<>> /\ Head(s) = " " THEN lstrip(Tail(s)) ELSE s

RECURSIVE rstrip(_)
rstrip(s) == IF s # <<>> /\ s[Len(s)] = " " THEN rstrip(SubSeq(s, 1, Len(s) - 1)) ELSE s

\* str.strip()
strip(s) == rstrip(lstrip(s))

lower_char(c) == IF c = "A" THEN "a" ELSE IF c = "B" THEN "b" ELSE c

\* str.lower() / SQL lower()
lower(s) == [i \in 1..Len(s) |-> lower_char(s[i])]

----------------------------------------------------------------------------
(* Outcomes.  "ok" is a normal return; every other outcome is the class of *)
(* the exception the call raises.  id is the id returned (0 when none).    *)

Ok(db, id) == [outcome |-> "ok", field |-> "", id |-> id, db |-> db]

\* The call raises: nothing it did after its last commit is kept.
Err(db, outcome, field) == [outcome |-> outcome, field |-> field, id |-> 0, db |-> db]

----------------------------------------------------------------------------
(* The schema *)

\* the columns and relationships of each mapped class
DirectorAttrs == {"id", "name", "birth_year", "description", "created_at", "updated_at", "movies"}

GenreAttrs == {"id", "name", "description", "created_at", "movies"}

MovieAttrs == {"id", "title", "director_id", "release_year", "cast", "created_at",
               "updated_at", "director", "genres", "ratings", "average_rating", "ratings_count"}

RatingAttrs == {"id", "movie_id", "score", "created_at", "movie"}

Attrs(t) ==
    CASE t = "directors" -> DirectorAttrs
      [] t = "genres" -> GenreAttrs
      [] t = "movies" -> MovieAttrs
      [] t = "ratings" -> RatingAttrs

\* columns declared nullable=True: they hold an Optional value
NullableCols == {"birth_year", "description", "director_id", "release_year", "cast"}

\* ScoreRange with the lower limit off by one
ScoreRangeFromZero == 0..10

\* the scores the rating rule allows
ScoreRange == 1..10

\* CheckConstraint check_score_range of movie_ratings
check_score_range(score) == score \in ScoreRange

\* ConstraintsHold of a schema where Genre.name is not declared unique
ConstraintsHold_name_not_unique(db, t, id, row) ==
    CASE t = "directors" -> TRUE
      [] t = "genres" -> TRUE
      [] t = "movies" -> IsNone(row.director_id) \/ Val(row.director_id) \in DOMAIN db.directors
      [] t = "ratings" -> row.movie_id \in DOMAIN db.movies /\ check_score_range(row.score)

\* What the storage engine checks at commit for row id of table t:
\* Genre.name unique, the foreign keys, and the score check.
ConstraintsHold(db, t, id, row) ==
    CASE t = "directors" -> TRUE
      [] t = "genres" -> \A g \in DOMAIN db.genres \ {id} : db.genres[g].name # row.name
      [] t = "movies" -> IsNone(row.director_id) \/ Val(row.director_id) \in DOMAIN db.directors
      [] t = "ratings" -> row.movie_id \in DOMAIN db.movies /\ check_score_range(row.score)

Init ==
    /\ directors = <<>>
    /\ genres = <<>>
    /\ movies = <<>>
    /\ movie_genres = {}
    /\ ratings = <<>>
    /\ seq = [directors |-> 0, genres |-> 0, movies |-> 0, ratings |-> 0]
    /\ last = [op |-> "init", id |-> 0, outcome |-> "ok", field |-> "", ret |-> 0]
    /\ sessions = <<>>
    /\ request = [route |-> "none", arg |-> 0, body |-> [kind |-> "absent", v |-> 0],
                  pc |-> "idle", acquired |-> <<>>, used |-> {}, exit |-> ""]
    /\ transaction = "none"
    /\ inflight = <<>>

----------------------------------------------------------------------------
(* BaseRepository *)

\* BaseRepository.exists, and whether BaseRepository.get finds a row
exists(db, t, id) == id \in DOMAIN db[t]

\* the ids of the rows whose column field equals value
Matching(db, t, field, value) == {i \in DOMAIN db[t] : db[t][i][field] = value}

Min(S) == CHOOSE x \in S : \A y \in S : x <= y

\* BaseRepository.get_by_field: ValueError when the mapped class has no such
\* attribute, else the id of the first matching row (None when there is none).
get_by_field(db, t, field, value) ==
    IF field \notin Attrs(t)
      THEN [error |-> TRUE, row |-> None]
      ELSE LET found == Matching(db, t, field, value)
           IN  [error |-> FALSE, row |-> IF found = {} THEN None ELSE Some(Min(found))]

\* BaseRepository.create: insert and commit; a failed commit is rolled back.
repo_create(db, t, row) ==
    LET id == db.seq[t] + 1
    IN  IF ~ConstraintsHold(db, t, id, row)
          THEN Err(db, "DatabaseError", "")
          ELSE Ok([db EXCEPT ![t] = @ @@ (id :> row), !.seq[t] = id], id)

\* the row after setattr of every entry of obj_in, None included where the
\* column is nullable
PatchedWithNone(row, obj_in) ==
    [f \in DOMAIN row |->
        IF f \in DOMAIN obj_in /\ (f \in NullableCols \/ ~IsNone(obj_in[f]))
          THEN IF f \in NullableCols THEN obj_in[f] ELSE Val(obj_in[f])
          ELSE row[f]]

\* the row after setattr of every entry of obj_in that is not None
Patched(row, obj_in) ==
    [f \in DOMAIN row |->
        IF f \in DOMAIN obj_in /\ ~IsNone(obj_in[f])
          THEN IF f \in NullableCols THEN obj_in[f] ELSE Val(obj_in[f])
          ELSE row[f]]

\* BaseRepository.update
repo_update(db, t, id, obj_in) ==
    IF ~exists(db, t, id)
      THEN Err(db, "NotFoundError", "")
      ELSE LET row == Patched(db[t][id], obj_in)
           IN  IF ~ConstraintsHold(db, t, id, row)
                 THEN Err(db, "DatabaseError", "")
                 ELSE Ok([db EXCEPT ![t][id] = row], id)

\* the rows of a table without the given ids
Without(table, ids) == [i \in DOMAIN table \ ids |-> table[i]]

\* Cascade where deleting a director follows the foreign key's ON DELETE SET NULL
\* and keeps the movies
CascadeSetNull(db, t, id) ==
    LET ms == IF t = "movies" THEN {id} ELSE {}
        gs == IF t = "genres" THEN {id} ELSE {}
        rs == IF t = "ratings" THEN {id}
              ELSE {r \in DOMAIN db.ratings : db.ratings[r].movie_id \in ms}
        kept == Without(db.movies, ms)
    IN  [directors |-> Without(db.directors, IF t = "directors" THEN {id} ELSE {}),
         genres |-> Without(db.genres, gs),
         movies |-> [m \in DOMAIN kept |->
                       IF t = "directors" /\ kept[m].director_id = Some(id)
                         THEN [kept[m] EXCEPT !.director_id = None] ELSE kept[m]],
         movie_genres |-> {l \in db.movie_genres : l[1] \notin ms /\ l[2] \notin gs},
         ratings |-> Without(db.ratings, rs),
         seq |-> db.seq]

\* Cascade where Movie.director cascades too: deleting a movie takes its director
CascadeToDirector(db, t, id) ==
    LET ds == CASE t = "directors" -> {id}
                [] t = "movies" -> {d \in DOMAIN db.directors : db.movies[id].director_id = Some(d)}
                [] OTHER -> {}
        ms == CASE t = "directors" -> {m \in DOMAIN db.movies : db.movies[m].director_id = Some(id)}
                [] t = "movies" -> {id}
                [] OTHER -> {}
        gs == IF t = "genres" THEN {id} ELSE {}
        rs == IF t = "ratings" THEN {id}
              ELSE {r \in DOMAIN db.ratings : db.ratings[r].movie_id \in ms}
    IN  [directors |-> Without(db.directors, ds),
         genres |-> Without(db.genres, gs),
         movies |-> Without(db.movies, ms),
         movie_genres |-> {l \in db.movie_genres : l[1] \notin ms /\ l[2] \notin gs},
         ratings |-> Without(db.ratings, rs),
         seq |-> db.seq]

\* Session.delete of row id of table t with the mapper's cascades: a director
\* takes its movies (Director.movies, all/delete-orphan), a movie its ratings
\* (Movie.ratings, all/delete-orphan), and a movie or genre its movie_genres rows.
Cascade(db, t, id) ==
    LET ms == CASE t = "directors" -> {m \in DOMAIN db.movies : db.movies[m].director_id = Some(id)}
                [] t = "movies" -> {id}
                [] OTHER -> {}
        gs == IF t = "genres" THEN {id} ELSE {}
        rs == IF t = "ratings" THEN {id}
              ELSE {r \in DOMAIN db.ratings : db.ratings[r].movie_id \in ms}
    IN  [directors |-> Without(db.directors, IF t = "directors" THEN {id} ELSE {}),
         genres |-> Without(db.genres, gs),
         movies |-> Without(db.movies, ms),
         movie_genres |-> {l \in db.movie_genres : l[1] \notin ms /\ l[2] \notin gs},
         ratings |-> Without(db.ratings, rs),
         seq |-> db.seq]

\* BaseRepository.delete
repo_delete(db, t, id) ==
    IF ~exists(db, t, id)
      THEN Err(db, "NotFoundError", "")
      ELSE Ok(Cascade(db, t, id), id)

----------------------------------------------------------------------------
(* Program constants of the validation rules *)

MinBirthYear == 1800

MaxBirthYear == 2100

MinReleaseYear == 1888

MaxReleaseYear == 2100

\* the default limit of the list queries
DefaultLimit == 100

----------------------------------------------------------------------------
(* RatingRepository: the read queries *)

RECURSIVE SumScores(_, _)
SumScores(table, ids) ==
    IF ids = {} THEN 0
    ELSE LET r == CHOOSE x \in ids : TRUE
         IN  table[r].score + SumScores(table, ids \ {r})

\* the ids of the ratings of a movie (the filter MovieRating.movie_id == movie_id)
RatingsOf(db, movie_id) == {r \in DOMAIN db.ratings : db.ratings[r].movie_id = movie_id}

RECURSIVE Descending(_)
\* a set of ids as a sequence, newest first: created_at is set by the server at
\* insert, so descending created_at is descending id
Descending(ids) ==
    IF ids = {} THEN <<>>
    ELSE LET top == CHOOSE x \in ids : \A y \in ids : y <= x
         IN  <<top>> \o Descending(ids \ {top})

\* query.offset(skip).limit(limit)
Page(rows, skip, limit) ==
    SubSeq(rows, skip + 1, IF skip + limit < Len(rows) THEN skip + limit ELSE Len(rows))

\* RatingRepository.get_movie_ratings with the default order (created_at desc)
get_movie_ratings(db, movie_id, skip, limit) ==
    Page(Descending(RatingsOf(db, movie_id)), skip, limit)

\* get_movie_average_rating without the filter on movie_id
get_movie_average_rating_unfiltered(db, movie_id) ==
    LET rs == DOMAIN db.ratings
        total == SumScores(db.ratings, rs)
    IN  IF rs = {} \/ total = 0 THEN None
        ELSE Some([num |-> total, den |-> Cardinality(rs)])

\* RatingRepository.get_movie_average_rating: AVG(score) as the fraction
\* num/den, None when AVG is NULL (no rows) or falsy (0)
get_movie_average_rating(db, movie_id) ==
    LET rs == RatingsOf(db, movie_id)
        total == SumScores(db.ratings, rs)
    IN  IF rs = {} \/ total = 0 THEN None
        ELSE Some([num |-> total, den |-> Cardinality(rs)])

Max(S) == CHOOSE x \in S : \A y \in S : y <= x

\* get_movie_rating_stats answering 0 where the aggregate is NULL
get_movie_rating_stats_zeroed(db, movie_id) ==
    LET rs == RatingsOf(db, movie_id)
        scores == {db.ratings[r].score : r \in rs}
        total == SumScores(db.ratings, rs)
    IN  [count |-> Cardinality(rs),
         average |-> IF rs = {} \/ total = 0 THEN None
                     ELSE Some([num |-> total, den |-> Cardinality(rs)]),
         min |-> IF rs = {} THEN Some(0) ELSE Some(Min(scores)),
         max |-> IF rs = {} THEN Some(0) ELSE Some(Max(scores))]

\* RatingRepository.get_movie_rating_stats: COUNT, AVG, MIN, MAX over the
\* movie's ratings; the aggregates but COUNT are NULL (None) over no rows
get_movie_rating_stats(db, movie_id) ==
    LET rs == RatingsOf(db, movie_id)
        scores == {db.ratings[r].score : r \in rs}
        total == SumScores(db.ratings, rs)
    IN  [count |-> Cardinality(rs),
         average |-> IF rs = {} \/ total = 0 THEN None
                     ELSE Some([num |-> total, den |-> Cardinality(rs)]),
         min |-> IF rs = {} THEN None ELSE Some(Min(scores)),
         max |-> IF rs = {} THEN None ELSE Some(Max(scores))]

----------------------------------------------------------------------------
(* RatingService *)

\* create_rating without the service's score check
RatingService_create_rating_unchecked(db, movie_id, score) ==
    IF ~exists(db, "movies", movie_id)
      THEN Err(db, "ValidationError", "movie_id")
    ELSE LET id == db.seq.ratings + 1
             row == [movie_id |-> movie_id, score |-> score]
         IN  IF ~ConstraintsHold(db, "ratings", id, row)
               THEN Err(db, "IntegrityError", "")
               ELSE Ok([db EXCEPT !.ratings = @ @@ (id :> row), !.seq.ratings = id], id)

\* RatingService.create_rating
RatingService_create_rating(db, movie_id, score) ==
    IF ~exists(db, "movies", movie_id)
      THEN Err(db, "ValidationError", "movie_id")
    ELSE IF ~(score \in ScoreRange)
      THEN Err(db, "ValidationError", "score")
    ELSE LET id == db.seq.ratings + 1
             row == [movie_id |-> movie_id, score |-> score]
         IN  IF ~ConstraintsHold(db, "ratings", id, row)
               THEN Err(db, "IntegrityError", "")
               ELSE Ok([db EXCEPT !.ratings = @ @@ (id :> row), !.seq.ratings = id], id)

\* RatingService.update_rating
RatingService_update_rating(db, rating_id, score) ==
    IF ~exists(db, "ratings", rating_id)
      THEN Err(db, "NotFoundError", "")
    ELSE IF ~(score \in ScoreRange)
      THEN Err(db, "ValidationError", "score")
    ELSE LET row == [db.ratings[rating_id] EXCEPT !.score = score]
         IN  IF ~ConstraintsHold(db, "ratings", rating_id, row)
               THEN Err(db, "IntegrityError", "")
               ELSE Ok([db EXCEPT !.ratings[rating_id] = row], rating_id)

\* RatingService.delete_rating
RatingService_delete_rating(db, rating_id) == repo_delete(db, "ratings", rating_id)

\* RatingService.get_movie_ratings with its defaults (skip 0, limit 100)
RatingService_get_movie_ratings(db, movie_id) ==
    IF ~exists(db, "movies", movie_id)
      THEN Err(db, "NotFoundError", "") @@ [rows |-> <<>>]
      ELSE Ok(db, 0) @@ [rows |-> get_movie_ratings(db, movie_id, 0, DefaultLimit)]

\* RatingService.get_movie_rating_stats
RatingService_get_movie_rating_stats(db, movie_id) ==
    IF ~exists(db, "movies", movie_id)
      THEN Err(db, "NotFoundError", "")
             @@ [stats |-> [count |-> 0, average |-> None, min |-> None, max |-> None]]
      ELSE Ok(db, movie_id) @@ [stats |-> get_movie_rating_stats(db, movie_id)]

\* RatingService.get_average_rating
RatingService_get_average_rating(db, movie_id) ==
    IF ~exists(db, "movies", movie_id)
      THEN Err(db, "NotFoundError", "") @@ [average |-> None]
      ELSE Ok(db, 0) @@ [average |-> get_movie_average_rating(db, movie_id)]

----------------------------------------------------------------------------
(* DirectorService *)

InRange(o, lo, hi) == lo <= Val(o) /\ Val(o) <= hi

\* create_director looking up the name as given, not stripped
DirectorService_create_director_unstripped(db, name, birth_year, description) ==
    IF strip(name) = <<>>
      THEN Err(db, "ValidationError", "name")
    ELSE IF TruthyInt(birth_year) /\ ~InRange(birth_year, MinBirthYear, MaxBirthYear)
      THEN Err(db, "ValidationError", "birth_year")
    ELSE LET existing == get_by_field(db, "directors", "name", name)
         IN  IF existing.error THEN Err(db, "ValueError", "name")
             ELSE IF ~IsNone(existing.row) THEN Err(db, "AlreadyExistsError", "name")
             ELSE repo_create(db, "directors",
                    [name |-> strip(name), birth_year |-> birth_year,
                     description |-> description])

\* DirectorService.create_director
DirectorService_create_director(db, name, birth_year, description) ==
    IF strip(name) = <<>>
      THEN Err(db, "ValidationError", "name")
    ELSE IF TruthyInt(birth_year) /\ ~InRange(birth_year, MinBirthYear, MaxBirthYear)
      THEN Err(db, "ValidationError", "birth_year")
    ELSE LET existing == get_by_field(db, "directors", "name", strip(name))
         IN  IF existing.error THEN Err(db, "ValueError", "name")
             ELSE IF ~IsNone(existing.row) THEN Err(db, "AlreadyExistsError", "name")
             ELSE repo_create(db, "directors",
                    [name |-> strip(name), birth_year |-> birth_year,
                     description |-> description])

\* DirectorService.update_director; name, birth_year and description are Optional
DirectorService_update_director(db, director_id, name, birth_year, description) ==
    IF ~exists(db, "directors", director_id)
      THEN Err(db, "NotFoundError", "")
    ELSE LET existing == IF IsNone(name) THEN [error |-> FALSE, row |-> None]
                         ELSE get_by_field(db, "directors", "name", strip(Val(name)))
             update_data == [name |-> IF IsNone(name) THEN None ELSE Some(strip(Val(name))),
                             birth_year |-> birth_year,
                             description |-> description]
         IN  IF existing.error THEN Err(db, "ValueError", "name")
             ELSE IF ~IsNone(existing.row) /\ Val(existing.row) # director_id
               THEN Err(db, "AlreadyExistsError", "name")
             ELSE IF ~IsNone(birth_year) /\ ~InRange(birth_year, MinBirthYear, MaxBirthYear)
               THEN Err(db, "ValidationError", "birth_year")
             ELSE repo_update(db, "directors", director_id, update_data)

\* DirectorService.delete_director
DirectorService_delete_director(db, director_id) == repo_delete(db, "directors", director_id)

----------------------------------------------------------------------------
(* GenreService and GenreRepository *)

\* GenreRepository.get_by_name: the first genre whose lower(name) is lower(name)
get_by_name(db, name) ==
    LET found == {g \in DOMAIN db.genres : lower(db.genres[g].name) = lower(name)}
    IN  IF found = {} THEN None ELSE Some(Min(found))

\* GenreService.create_genre
GenreService_create_genre(db, name, description) ==
    IF strip(name) = <<>>
      THEN Err(db, "ValidationError", "name")
    ELSE LET existing == get_by_field(db, "genres", "name", strip(name))
         IN  IF existing.error THEN Err(db, "ValueError", "name")
             ELSE IF ~IsNone(existing.row) THEN Err(db, "AlreadyExistsError", "name")
             ELSE repo_create(db, "genres", [name |-> strip(name), description |-> description])

\* GenreService.update_genre; name and description are Optional
GenreService_update_genre(db, genre_id, name, description) ==
    IF ~exists(db, "genres", genre_id)
      THEN Err(db, "NotFoundError", "")
    ELSE LET existing == IF IsNone(name) THEN [error |-> FALSE, row |-> None]
                         ELSE get_by_field(db, "genres", "name", strip(Val(name)))
             update_data == [name |-> IF IsNone(name) THEN None ELSE Some(strip(Val(name))),
                             description |-> description]
         IN  IF existing.error THEN Err(db, "ValueError", "name")
             ELSE IF ~IsNone(existing.row) /\ Val(existing.row) # genre_id
               THEN Err(db, "AlreadyExistsError", "name")
             ELSE repo_update(db, "genres", genre_id, update_data)

\* GenreService.delete_genre
GenreService_delete_genre(db, genre_id) == repo_delete(db, "genres", genre_id)

----------------------------------------------------------------------------
(* MovieRepository and MovieService *)

Range(q) == {q[i] : i \in DOMAIN q}

\* update_movie_genres that appends without clearing the movie's genres
MovieRepository_update_movie_genres_merging(db, movie_id, genre_ids) ==
    IF ~exists(db, "movies", movie_id)
      THEN Err(db, "NotFoundError", "")
    ELSE LET found == {i \in DOMAIN genre_ids : genre_ids[i] \in DOMAIN db.genres}
             twice == \E i, j \in found :
                         /\ i # j
                         /\ genre_ids[i] = genre_ids[j]
                         /\ <<movie_id, genre_ids[i]>> \notin db.movie_genres
         IN  IF twice THEN Err(db, "DatabaseError", "")
             ELSE Ok([db EXCEPT !.movie_genres =
                                    db.movie_genres \cup {<<movie_id, genre_ids[i]>> : i \in found}],
                     movie_id)

\* MovieRepository.update_movie_genres: clear the movie's genres, append every
\* genre of genre_ids that exists, commit.  A genre appended twice that was not
\* attached before is inserted twice, which unique_movie_genre rejects.
MovieRepository_update_movie_genres(db, movie_id, genre_ids) ==
    IF ~exists(db, "movies", movie_id)
      THEN Err(db, "NotFoundError", "")
    ELSE LET found == {i \in DOMAIN genre_ids : genre_ids[i] \in DOMAIN db.genres}
             twice == \E i, j \in found :
                         /\ i # j
                         /\ genre_ids[i] = genre_ids[j]
                         /\ <<movie_id, genre_ids[i]>> \notin db.movie_genres
             kept == {l \in db.movie_genres : l[1] # movie_id}
         IN  IF twice THEN Err(db, "DatabaseError", "")
             ELSE Ok([db EXCEPT !.movie_genres =
                                    kept \cup {<<movie_id, genre_ids[i]>> : i \in found}],
                     movie_id)

\* MovieService.update_movie_genres
MovieService_update_movie_genres(db, movie_id, genre_ids) ==
    IF ~exists(db, "movies", movie_id)
      THEN Err(db, "NotFoundError", "")
    ELSE IF \E g \in Range(genre_ids) : ~exists(db, "genres", g)
      THEN Err(db, "ValidationError", "genre_ids")
    ELSE MovieRepository_update_movie_genres(db, movie_id, genre_ids)

\* create_movie without the check that the director exists
MovieService_create_movie_any_director(db, title, director_id, release_year, cast, genre_ids) ==
    IF strip(title) = <<>>
      THEN Err(db, "ValidationError", "title")
    ELSE IF TruthyInt(release_year) /\ ~InRange(release_year, MinReleaseYear, MaxReleaseYear)
      THEN Err(db, "ValidationError", "release_year")
    ELSE LET existing == get_by_field(db, "movies", "name", strip(title))
         IN  IF existing.error THEN Err(db, "ValueError", "name")
             ELSE IF ~IsNone(existing.row) THEN Err(db, "AlreadyExistsError", "title")
             ELSE repo_create(db, "movies",
                    [title |-> strip(title), director_id |-> Some(director_id),
                     release_year |-> release_year, cast |-> cast])

\* MovieService.create_movie; release_year, cast and genre_ids are Optional.
\* The movie is committed by the repository's create before the genres are
\* looked at, so an error of update_movie_genres leaves the movie stored.
MovieService_create_movie(db, title, director_id, release_year, cast, genre_ids) ==
    IF strip(title) = <<>>
      THEN Err(db, "ValidationError", "title")
    ELSE IF ~exists(db, "directors", director_id)
      THEN Err(db, "ValidationError", "director_id")
    ELSE IF TruthyInt(release_year) /\ ~InRange(release_year, MinReleaseYear, MaxReleaseYear)
      THEN Err(db, "ValidationError", "release_year")
    ELSE LET existing == get_by_field(db, "movies", "name", strip(title))
         IN  IF existing.error THEN Err(db, "ValueError", "name")
             ELSE IF ~IsNone(existing.row) THEN Err(db, "AlreadyExistsError", "title")
             ELSE LET movie == repo_create(db, "movies",
                                 [title |-> strip(title), director_id |-> Some(director_id),
                                  release_year |-> release_year, cast |-> cast])
                  IN  IF movie.outcome # "ok" THEN movie
                      ELSE IF ~IsNone(genre_ids) /\ Val(genre_ids) # <<>>
                        THEN LET linked == MovieService_update_movie_genres(
                                               movie.db, movie.id, Val(genre_ids))
                             IN  IF linked.outcome # "ok" THEN linked
                                 ELSE Ok(linked.db, movie.id)
                      ELSE movie

\* MovieService.update_movie; every argument but movie_id is Optional
MovieService_update_movie(db, movie_id, title, director_id, release_year, cast, genre_ids) ==
    IF ~exists(db, "movies", movie_id)
      THEN Err(db, "NotFoundError", "")
    ELSE IF ~IsNone(director_id) /\ ~exists(db, "directors", Val(director_id))
      THEN Err(db, "ValidationError", "director_id")
    ELSE IF ~IsNone(release_year) /\ ~InRange(release_year, MinReleaseYear, MaxReleaseYear)
      THEN Err(db, "ValidationError", "release_year")
    ELSE LET update_data == [title |-> IF IsNone(title) THEN None ELSE Some(strip(Val(title))),
                             director_id |-> director_id,
                             release_year |-> release_year,
                             cast |-> cast]
             movie == repo_update(db, "movies", movie_id, update_data)
         IN  IF movie.outcome # "ok" THEN movie
             ELSE IF ~IsNone(genre_ids)
               THEN LET linked == MovieService_update_movie_genres(
                                      movie.db, movie_id, Val(genre_ids))
                    IN  IF linked.outcome # "ok" THEN linked ELSE Ok(linked.db, movie_id)
             ELSE movie

\* MovieService.delete_movie
MovieService_delete_movie(db, movie_id) == repo_delete(db, "movies", movie_id)

\* MovieRepository.get_with_details / MovieService.get_movie_with_details: the
\* movie with its director, genres and ratings loaded
MovieService_get_movie_with_details(db, movie_id) ==
    IF ~exists(db, "movies", movie_id)
      THEN Err(db, "NotFoundError", "")
             @@ [movie |-> None, genres |-> {}, ratings |-> {}]
      ELSE Ok(db, movie_id)
             @@ [movie |-> Some(db.movies[movie_id]),
                 genres |-> {l[2] : l \in {k \in db.movie_genres : k[1] = movie_id}},
                 ratings |-> RatingsOf(db, movie_id)]

----------------------------------------------------------------------------
(* Controllers.  A controller answers with an envelope: outcome "success",  *)
(* or outcome "failure" with the envelope's error code in field.           *)

Success(db, id) == [outcome |-> "success", field |-> "", id |-> id, db |-> db]

Failure(db, code) == [outcome |-> "failure", field |-> code, id |-> 0, db |-> db]

\* the except clauses of a controller: the error code for an exception class
ErrorCode(outcome) ==
    CASE outcome = "ValidationError" -> "422"
      [] outcome = "NotFoundError" -> "404"
      [] outcome = "AlreadyExistsError" -> "409"
      [] OTHER -> "500"

\* create_movie_rating (POST /movies/{id}/ratings); body is the JSON body:
\* [kind |-> "absent"] without a score, else the score's JSON type and value
Controller_create_movie_rating(db, movie_id, body) ==
    IF ~exists(db, "movies", movie_id)
      THEN Failure(db, "404")
    ELSE IF body.kind = "absent"
      THEN Failure(db, "422")
    ELSE IF body.kind # "int" \/ ~(body.v \in ScoreRange)
      THEN Failure(db, "422")
    ELSE LET rating == RatingService_create_rating(db, movie_id, body.v)
         IN  IF rating.outcome = "ok" THEN Success(rating.db, rating.id)
             ELSE Failure(rating.db, ErrorCode(rating.outcome))

\* get_movie (GET /movies/{id}): the detail envelope's computed fields
Controller_get_movie(db, movie_id) ==
    LET movie == MovieService_get_movie_with_details(db, movie_id)
    IN  IF movie.outcome # "ok"
          THEN Failure(db, ErrorCode(movie.outcome))
                 @@ [average_rating |-> None, ratings_count |-> 0, genres |-> {}]
          ELSE Success(db, movie_id)
                 @@ [average_rating |-> RatingService_get_average_rating(db, movie_id).average,
                     ratings_count |-> Cardinality(movie.ratings),
                     genres |-> {db.genres[g].name : g \in movie.genres}]

\* create_movie (POST /movies) on a body the MovieCreate schema accepted
Controller_create_movie(db, title, director_id, release_year, cast, genre_ids) ==
    LET movie == MovieService_create_movie(db, title, director_id, release_year, cast,
                                           Some(genre_ids))
    IN  IF movie.outcome = "ok" THEN Success(movie.db, movie.id)
        ELSE Failure(movie.db, ErrorCode(movie.outcome))

----------------------------------------------------------------------------
(* HTTP responses.  A route answers with the envelope its function returns, *)
(* under the status code of the route, with a Response the function built, *)
(* or, when the function raises, with what the exception handler builds.   *)

\* Response(status_code=204): no body
NoContent(db) == [outcome |-> "no_content", field |-> "", id |-> 0, db |-> db]

\* create_director (POST /directors) on a body the DirectorCreate schema accepted
Controller_create_director(db, name, birth_year, description) ==
    LET director == DirectorService_create_director(db, name, birth_year, description)
    IN  IF director.outcome = "ok" THEN Success(director.db, director.id)
        ELSE Failure(director.db, ErrorCode(director.outcome))

\* get_director (GET /directors/{id})
Controller_get_director(db, director_id) ==
    IF ~exists(db, "directors", director_id) THEN Failure(db, "404")
    ELSE Success(db, director_id)

\* update_director (PUT /directors/{id}) on a body the DirectorUpdate schema accepted
Controller_update_director(db, director_id, name, birth_year, description) ==
    LET director == DirectorService_update_director(db, director_id, name, birth_year,
                                                    description)
    IN  IF director.outcome = "ok" THEN Success(director.db, director.id)
        ELSE Failure(director.db, ErrorCode(director.outcome))

\* delete_director (DELETE /directors/{id})
Controller_delete_director(db, director_id) ==
    LET result == DirectorService_delete_director(db, director_id)
    IN  IF result.outcome = "ok" THEN NoContent(result.db)
        ELSE Failure(result.db, ErrorCode(result.outcome))

\* delete_movie (DELETE /movies/{id}): no try block, an exception of the
\* service leaves the function
Controller_delete_movie(db, movie_id) ==
    LET result == MovieService_delete_movie(db, movie_id)
    IN  IF result.outcome = "ok" THEN NoContent(result.db) ELSE result

\* the exception handlers of the application: the status code for an
\* exception that left the route function
HandlerStatus(outcome) ==
    CASE outcome = "NotFoundError" -> "404"
      [] outcome = "ValidationError" -> "422"
      [] outcome = "AlreadyExistsError" -> "409"
      [] OTHER -> "500"

\* The HTTP response of a route declared with status code route_status whose
\* function ended with r; the status code of the response is kept in id.
HttpResponse(route_status, r) ==
    IF r.outcome \in {"success", "failure"}
      THEN [outcome |-> r.outcome, field |-> r.field, id |-> route_status, db |-> r.db]
    ELSE IF r.outcome = "no_content"
      THEN [outcome |-> r.outcome, field |-> r.field, id |-> "204", db |-> r.db]
    ELSE [outcome |-> "failure", field |-> HandlerStatus(r.outcome),
          id |-> HandlerStatus(r.outcome), db |-> r.db]

----------------------------------------------------------------------------
(* Listing movies (GET /movies) *)

\* the code point of a character, for ORDER BY on a text column
ord(c) ==
    CASE c = " " -> 32
      [] c = "A" -> 65
      [] c = "B" -> 66
      [] c = "a" -> 97
      [] c = "b" -> 98
      [] c = "c" -> 99
      [] c = "d" -> 100

RECURSIVE StrLess(_, _)
\* s sorts before t
StrLess(s, t) ==
    IF t = <<>> THEN FALSE
    ELSE IF s = <<>> THEN TRUE
    ELSE IF ord(Head(s)) # ord(Head(t)) THEN ord(Head(s)) < ord(Head(t))
    ELSE StrLess(Tail(s), Tail(t))

RECURSIVE ByTitle(_, _)
\* order_by(Movie.title): the movies ids as a sequence by ascending title;
\* rows of equal title come in the order of their ids
ByTitle(db, ids) ==
    IF ids = {} THEN <<>>
    ELSE LET first == CHOOSE x \in ids : \A y \in ids \ {x} :
                         \/ StrLess(db.movies[x].title, db.movies[y].title)
                         \/ db.movies[x].title = db.movies[y].title /\ x < y
         IN  <<first>> \o ByTitle(db, ids \ {first})

\* q in s
Contains(s, q) ==
    \E i \in 0..(Len(s) - Len(q)) : SubSeq(s, i + 1, i + Len(q)) = q

\* column.ilike('%q%') and q.lower() in s.lower()
ilike(s, q) == Contains(lower(s), lower(q))

\* bool(x) of an Optional[str]: None and '' are falsy
TruthyStr(o) == ~IsNone(o) /\ Val(o) # <<>>

\* BaseRepository.count
count(db, t) == Cardinality(DOMAIN db[t])

\* MovieRepository.get_all_with_details with the default order (title asc)
get_all_with_details(db, skip, limit) ==
    Page(ByTitle(db, DOMAIN db.movies), skip, limit)

\* MovieRepository.search_by_title
search_by_title(db, title_query, skip, limit) ==
    Page(ByTitle(db, {m \in DOMAIN db.movies : ilike(db.movies[m].title, title_query)}),
         skip, limit)

\* MovieRepository.get_by_genre
get_by_genre(db, genre_id, skip, limit) ==
    Page(ByTitle(db, {m \in DOMAIN db.movies : <<m, genre_id>> \in db.movie_genres}),
         skip, limit)

\* MovieService.search_movies as get_movies calls it: with title_query or
\* genre_id (director_id, min_year and max_year are never passed)
MovieService_search_movies(db, title_query, genre_id, skip, limit) ==
    IF TruthyStr(title_query) THEN search_by_title(db, Val(title_query), skip, limit)
    ELSE IF TruthyInt(genre_id) THEN get_by_genre(db, Val(genre_id), skip, limit)
    ELSE get_all_with_details(db, skip, limit)

\* the limit get_movies passes when it filters by release_year alone
AllMoviesLimit == 1000

\* create_paginated_response
Paginated(db, items, total_items) ==
    Success(db, 0) @@ [items |-> items, total_items |-> total_items]

\* get_movies (GET /movies); items are the ids of the movies of the page
Controller_get_movies(db, title, release_year, genre, page, page_size) ==
    LET skip == (page - 1) * page_size
        Shown(m) ==
            /\ TruthyStr(title) => ilike(db.movies[m].title, Val(title))
            /\ TruthyInt(release_year) => db.movies[m].release_year = release_year
        SameYear(m) == db.movies[m].release_year = release_year
    IN  IF TruthyStr(genre)
          THEN LET genre_obj == get_by_name(db, Val(genre))
               IN  IF IsNone(genre_obj) THEN Paginated(db, <<>>, 0)
                   ELSE LET found == MovieService_search_movies(db, None, genre_obj,
                                                                skip, page_size)
                            filtered_movies == SelectSeq(found, Shown)
                        IN  Paginated(db, filtered_movies, Len(filtered_movies))
        ELSE IF TruthyStr(title)
          THEN Paginated(db, MovieService_search_movies(db, title, None, skip, page_size),
                         count(db, "movies"))
        ELSE IF TruthyInt(release_year)
          THEN Paginated(db,
                         Page(SelectSeq(get_all_with_details(db, 0, AllMoviesLimit), SameYear),
                              skip, page_size),
                         count(db, "movies"))
        ELSE Paginated(db, get_all_with_details(db, skip, page_size), count(db, "movies"))

----------------------------------------------------------------------------
(* Actions: one call of an operation, applied to the committed database.   *)

InBounds(db) ==
    /\ db.seq.directors <= MaxDirectors
    /\ db.seq.genres <= MaxGenres
    /\ db.seq.movies <= MaxMovies
    /\ db.seq.ratings <= MaxRatings

\* The result r of op(id, ...) becomes the committed database.
Apply(op, id, r) ==
    /\ InBounds(r.db)
    /\ directors' = r.db.directors
    /\ genres' = r.db.genres
    /\ movies' = r.db.movies
    /\ movie_genres' = r.db.movie_genres
    /\ ratings' = r.db.ratings
    /\ seq' = r.db.seq
    /\ last' = [op |-> op, id |-> id, outcome |-> r.outcome, field |-> r.field, ret |-> r.id]

\* The call op(id, ...) ends with result r.
Call(op, id, r) == Apply(op, id, r) /\ UNCHANGED <<sessions, request, transaction, inflight>>

create_rating(movie_id, score) ==
    Call("create_rating", movie_id, RatingService_create_rating(DB, movie_id, score))

update_rating(rating_id, score) ==
    Call("update_rating", rating_id, RatingService_update_rating(DB, rating_id, score))

delete_rating(rating_id) ==
    Call("delete_rating", rating_id, RatingService_delete_rating(DB, rating_id))

post_movie_rating(movie_id, body) ==
    Call("post_movie_rating", movie_id, Controller_create_movie_rating(DB, movie_id, body))

create_director(name, birth_year, description) ==
    Call("create_director", 0, DirectorService_create_director(DB, name, birth_year, description))

update_director(director_id, name, birth_year, description) ==
    Call("update_director", director_id,
         DirectorService_update_director(DB, director_id, name, birth_year, description))

delete_director(director_id) ==
    Call("delete_director", director_id, DirectorService_delete_director(DB, director_id))

create_genre(name, description) ==
    Call("create_genre", 0, GenreService_create_genre(DB, name, description))

update_genre(genre_id, name, description) ==
    Call("update_genre", genre_id, GenreService_update_genre(DB, genre_id, name, description))

delete_genre(genre_id) ==
    Call("delete_genre", genre_id, GenreService_delete_genre(DB, genre_id))

create_movie(title, director_id, release_year, cast, genre_ids) ==
    Call("create_movie", director_id,
         MovieService_create_movie(DB, title, director_id, release_year, cast, genre_ids))

post_movie(title, director_id, release_year, cast, genre_ids) ==
    Call("post_movie", director_id,
         Controller_create_movie(DB, title, director_id, release_year, cast, genre_ids))

update_movie(movie_id, title, director_id, release_year, cast, genre_ids) ==
    Call("update_movie", movie_id,
         MovieService_update_movie(DB, movie_id, title, director_id, release_year, cast,
                                   genre_ids))

update_movie_genres(movie_id, genre_ids) ==
    Call("update_movie_genres", movie_id,
         MovieService_update_movie_genres(DB, movie_id, genre_ids))

delete_movie(movie_id) ==
    Call("delete_movie", movie_id, MovieService_delete_movie(DB, movie_id))

\* MovieRepository.create (BaseRepository.create on movies), the write that
\* puts a movie into the store
repo_create_movie(title, director_id, release_year, cast) ==
    Call("repo_create_movie", 0,
         repo_create(DB, "movies",
                     [title |-> title, director_id |-> director_id,
                      release_year |-> release_year, cast |-> cast]))

\* The requests below keep the status code of the HTTP response in last.ret.
http_create_director(name, birth_year, description) ==
    Call("http_create_director", 0,
         HttpResponse("201", Controller_create_director(DB, name, birth_year, description)))

http_get_director(director_id) ==
    Call("http_get_director", director_id,
         HttpResponse("200", Controller_get_director(DB, director_id)))

http_update_director(director_id, name, birth_year, description) ==
    Call("http_update_director", director_id,
         HttpResponse("200", Controller_update_director(DB, director_id, name, birth_year,
                                                        description)))

http_delete_director(director_id) ==
    Call("http_delete_director", director_id,
         HttpResponse("200", Controller_delete_director(DB, director_id)))

http_delete_movie(movie_id) ==
    Call("http_delete_movie", movie_id,
         HttpResponse("204", Controller_delete_movie(DB, movie_id)))

\* GET /movies: a read; the request is kept in last.id, the page in last.ret
get_movies(title, release_year, genre, page, page_size) ==
    LET r == Controller_get_movies(DB, title, release_year, genre, page, page_size)
    IN  /\ UNCHANGED <<directors, genres, movies, movie_genres, ratings, seq, sessions, request,
                       transaction, inflight>>
        /\ last' = [op |-> "get_movies",
                    id |-> [title |-> title, release_year |-> release_year, genre |-> genre,
                            page |-> page, page_size |-> page_size],
                    outcome |-> r.outcome, field |-> r.field,
                    ret |-> [items |-> r.items, total_items |-> r.total_items]]

----------------------------------------------------------------------------
(* One request: its dependencies are resolved in the order the route       *)
(* declares them, the route function runs, the dependencies are torn down. *)

\* the Depends(...) parameters of a route function
Dependencies(route) ==
    CASE route = "create_movie_rating" -> <<"get_rating_service", "get_service_factory">>
      [] route = "get_movie" -> <<"get_movie_service", "get_service_factory">>
      [] route = "delete_movie" -> <<"get_movie_service">>
      [] route = "get_director" -> <<"get_director_service">>

\* next(get_db()): a new session
get_db(ss) == Append(ss, "open")

\* a request for a route arrives
receive(route, arg, body) ==
    /\ request.pc \in {"idle", "done"}
    /\ Len(sessions) + Len(Dependencies(route)) <= MaxSessions
    /\ request' = [route |-> route, arg |-> arg, body |-> body, pc |-> "deps",
                   acquired |-> <<>>, used |-> {}, exit |-> ""]
    /\ UNCHANGED <<directors, genres, movies, movie_genres, ratings, seq, last, sessions,
                 transaction, inflight>>

\* get_service_factory / get_movie_service / ... up to the yield: each one
\* takes a session of its own from get_db
resolve_dependency ==
    /\ request.pc = "deps"
    /\ sessions' = get_db(sessions)
    /\ request' = [request EXCEPT
                     !.acquired = Append(@, Len(sessions) + 1),
                     !.pc = IF Len(request.acquired) + 1 = Len(Dependencies(request.route))
                              THEN "handler" ELSE "deps"]
    /\ UNCHANGED <<directors, genres, movies, movie_genres, ratings, seq, last, transaction, inflight>>

\* The route function of the request on database db: its HTTP response and
\* the positions, among its dependencies, of those whose session it used.
Handler(db, req) ==
    CASE req.route = "create_movie_rating" ->
           [response |-> HttpResponse("201",
                                      Controller_create_movie_rating(db, req.arg, req.body)),
            used |-> IF /\ exists(db, "movies", req.arg)
                        /\ req.body.kind = "int"
                        /\ req.body.v \in ScoreRange
                       THEN {1, 2} ELSE {2}]
      [] req.route = "get_movie" ->
           [response |-> HttpResponse("200", Controller_get_movie(db, req.arg)),
            used |-> IF exists(db, "movies", req.arg) THEN {1, 2} ELSE {1}]
      [] req.route = "delete_movie" ->
           [response |-> HttpResponse("204", Controller_delete_movie(db, req.arg)),
            used |-> {1}]
      [] req.route = "get_director" ->
           [response |-> HttpResponse("200", Controller_get_director(db, req.arg)),
            used |-> {1}]

\* how the route function ended: it returned a success, it returned the
\* envelope of an error it caught, or an exception left it
ExitOf(db, req) ==
    LET r == CASE req.route = "create_movie_rating" ->
                    Controller_create_movie_rating(db, req.arg, req.body)
               [] req.route = "get_movie" -> Controller_get_movie(db, req.arg)
               [] req.route = "delete_movie" -> Controller_delete_movie(db, req.arg)
               [] req.route = "get_director" -> Controller_get_director(db, req.arg)
    IN  IF r.outcome \in {"success", "no_content"} THEN "returned"
        ELSE IF r.outcome = "failure" THEN "handled"
        ELSE "raised"

\* the route function runs
handle ==
    /\ request.pc = "handler"
    /\ Apply(request.route, request.arg, Handler(DB, request).response)
    /\ request' = [request EXCEPT
                     !.pc = "teardown",
                     !.used = {request.acquired[i] : i \in Handler(DB, request).used},
                     !.exit = ExitOf(DB, request)]
    /\ UNCHANGED <<sessions, transaction, inflight>>

\* teardown without a finally clause: an exception that left the route
\* function skips db.close()
teardown_unless_raised ==
    /\ request.pc = "teardown"
    /\ LET open == {i \in DOMAIN request.acquired : sessions[request.acquired[i]] = "open"}
       IN  IF open = {} \/ request.exit = "raised"
             THEN /\ request' = [request EXCEPT !.pc = "done"]
                  /\ UNCHANGED sessions
             ELSE /\ sessions' = [sessions EXCEPT ![request.acquired[Max(open)]] = "closed"]
                  /\ UNCHANGED request
    /\ UNCHANGED <<directors, genres, movies, movie_genres, ratings, seq, last, transaction, inflight>>

\* the code after the yield of each dependency, last resolved first:
\* finally: db.close(), on every way out of the route function
teardown ==
    /\ request.pc = "teardown"
    /\ LET open == {i \in DOMAIN request.acquired : sessions[request.acquired[i]] = "open"}
       IN  IF open = {}
             THEN /\ request' = [request EXCEPT !.pc = "done"]
                  /\ UNCHANGED sessions
             ELSE /\ sessions' = [sessions EXCEPT ![request.acquired[Max(open)]] = "closed"]
                  /\ UNCHANGED request
    /\ UNCHANGED <<directors, genres, movies, movie_genres, ratings, seq, last, transaction, inflight>>

----------------------------------------------------------------------------
(* Inputs *)

DirectorIds == 1..MaxDirectors

GenreIds == 1..MaxGenres

MovieIds == 1..MaxMovies

RatingIds == 1..MaxRatings

\* scores below, inside and above the allowed range
ScoreInputs == {0, 8, 9, 10, 11}

\* JSON bodies of a rating request: no score, 3.5, "x", or an integer
BodyInputs ==
    {[kind |-> "absent", v |-> 0], [kind |-> "float", v |-> 3], [kind |-> "str", v |-> 0]}
        \cup {[kind |-> "int", v |-> n] : n \in {0, 9, 11}}

----------------------------------------------------------------------------
(* The rating operations on a store of movies *)

NextRatings ==
    \/ repo_create_movie(<<"a">>, None, None, None)
    \/ \E m \in MovieIds, s \in ScoreInputs : create_rating(m, s)
    \/ \E r \in RatingIds, s \in {0, 9, 11} : update_rating(r, s)
    \/ \E r \in RatingIds : delete_rating(r)
    \/ \E m \in MovieIds, b \in BodyInputs : post_movie_rating(m, b)

SpecRatings == Init /\ [][NextRatings]_vars

----------------------------------------------------------------------------
(* Claims about ratings, under SpecRatings *)

\* C1: in every state reached by create_rating, update_rating and
\* delete_rating calls with arbitrary integer scores, every stored rating
\* has a score in 1..10.
C1_StoredScoresInRange ==
    \A r \in DOMAIN ratings : 1 <= ratings[r].score /\ ratings[r].score <= 10

\* an update of one of several stored ratings has gone through
C1_Witness ==
    /\ last.op = "update_rating"
    /\ last.outcome = "ok"
    /\ Cardinality(DOMAIN ratings) >= 2

\* C2: for an existing movie and a score outside 1..10 (an integer out of
\* range, or for the POST a value that is no integer), create_rating fails
\* with ValidationError, POST /movies/{id}/ratings answers the 422 error
\* envelope, and the stored ratings are unchanged.
C2_InvalidScoreRejected ==
    [][ /\ \A m \in MovieIds, s \in ScoreInputs :
             (/\ last'.op = "create_rating"
              /\ last'.id = m
              /\ m \in DOMAIN movies
              /\ ~(1 <= s /\ s <= 10)
              /\ create_rating(m, s))
                => (last'.outcome = "ValidationError" /\ ratings' = ratings)
        /\ \A m \in MovieIds, b \in BodyInputs :
             (/\ last'.op = "post_movie_rating"
              /\ last'.id = m
              /\ m \in DOMAIN movies
              /\ b.kind # "absent"
              /\ (b.kind # "int" \/ ~(1 <= b.v /\ b.v <= 10))
              /\ post_movie_rating(m, b))
                => (last'.outcome = "failure" /\ last'.field = "422" /\ ratings' = ratings)
      ]_vars

\* a create_rating on an existing, already rated movie was refused for its score
C2_Witness ==
    /\ last.op = "create_rating"
    /\ last.outcome = "ValidationError"
    /\ last.field = "score"
    /\ last.id \in DOMAIN movies
    /\ RatingsOf(DB, last.id) # {}

\* C3: for an existing movie m and a score s in 1..10, create_rating(m, s)
\* succeeds; right afterwards the new rating is in get_movie_ratings(m), m
\* has exactly one rating more, and the average reported for m is the mean
\* of the scores of all its ratings.
C3_CreatedRatingVisible ==
    [][ \A m \in MovieIds, s \in ScoreInputs :
          (/\ last'.op = "create_rating"
           /\ last'.id = m
           /\ m \in DOMAIN movies
           /\ 1 <= s /\ s <= 10
           /\ create_rating(m, s))
             => LET before == RatingsOf(DB, m)
                    listed == RatingService_get_movie_ratings(DB', m)
                    detail == Controller_get_movie(DB', m)
                IN  /\ last'.outcome = "ok"
                    /\ last'.ret \notin DOMAIN ratings
                    /\ ratings'[last'.ret] = [movie_id |-> m, score |-> s]
                    /\ listed.outcome = "ok"
                    /\ \E i \in DOMAIN listed.rows : listed.rows[i] = last'.ret
                    /\ Len(listed.rows) = Cardinality(before) + 1
                    /\ detail.ratings_count = Cardinality(before) + 1
                    /\ ~IsNone(detail.average_rating)
                    /\ Val(detail.average_rating).num * (Cardinality(before) + 1)
                         = (SumScores(ratings, before) + s) * Val(detail.average_rating).den
      ]_vars

\* the ratings 8, 9, 10 of one movie, the last just created: average 9.0, count 3
C3_Witness ==
    /\ last.op = "create_rating"
    /\ last.outcome = "ok"
    /\ {ratings[r].score : r \in RatingsOf(DB, last.id)} = {8, 9, 10}
    /\ Controller_get_movie(DB, last.id).ratings_count = 3
    /\ Controller_get_movie(DB, last.id).average_rating = Some([num |-> 27, den |-> 3])

----------------------------------------------------------------------------
(* Deletes and their cascades, on a store of directors, movies with their  *)
(* genres, and ratings                                                     *)

NextCascade ==
    \/ \E n \in {<<"a">>, <<"A">>} : create_director(n, None, None)
    \/ create_genre(<<"a">>, None)
    \/ \E d \in DirectorIds : repo_create_movie(<<"a">>, Some(d), None, None)
    \/ \E m \in MovieIds : update_movie_genres(m, <<1>>)
    \/ \E m \in MovieIds : seq.ratings < MaxCascadeRatings /\ create_rating(m, 9)
    \/ \E d \in DirectorIds : delete_director(d)
    \/ \E m \in MovieIds : delete_movie(m)

SpecCascade == Init /\ [][NextCascade]_vars

----------------------------------------------------------------------------
(* Claims about deletes, under SpecCascade *)

\* C4: after delete_director(d) succeeds there is no director d, no movie
\* whose director_id was d and no rating of such a movie; the movies of
\* other directors and their ratings are unchanged.
C4_DeleteDirectorCascades ==
    [][ \A d \in DirectorIds :
          (last'.op = "delete_director" /\ last'.id = d /\ last'.outcome = "ok")
             => LET gone == {m \in DOMAIN movies : movies[m].director_id = Some(d)}
                IN  /\ d \in DOMAIN directors
                    /\ d \notin DOMAIN directors'
                    /\ \A m \in gone : m \notin DOMAIN movies'
                    /\ \A r \in DOMAIN ratings :
                         ratings[r].movie_id \in gone => r \notin DOMAIN ratings'
                    /\ \A m \in DOMAIN movies \ gone :
                         m \in DOMAIN movies' /\ movies'[m] = movies[m]
                    /\ \A r \in DOMAIN ratings :
                         ratings[r].movie_id \notin gone
                            => (r \in DOMAIN ratings' /\ ratings'[r] = ratings[r])
                    /\ DOMAIN movies' \subseteq DOMAIN movies
                    /\ DOMAIN ratings' \subseteq DOMAIN ratings
      ]_vars

\* a director was deleted; movies and ratings have gone, and a rated movie
\* of another director is still there
C4_Witness ==
    /\ last.op = "delete_director"
    /\ last.outcome = "ok"
    /\ Cardinality(DOMAIN movies) < seq.movies
    /\ Cardinality(DOMAIN ratings) < seq.ratings
    /\ \E m \in DOMAIN movies :
         /\ movies[m].director_id # Some(last.id)
         /\ RatingsOf(DB, m) # {}

\* C5: after delete_movie(m) succeeds, the movie m and every rating with
\* movie_id = m are gone; the directors, the genres, and every other movie
\* with its ratings and genre links are unchanged.
C5_DeleteMovieFrame ==
    [][ \A m \in MovieIds :
          (last'.op = "delete_movie" /\ last'.id = m /\ last'.outcome = "ok")
             => /\ m \in DOMAIN movies
                /\ m \notin DOMAIN movies'
                /\ \A r \in DOMAIN ratings' : ratings'[r].movie_id # m
                /\ directors' = directors
                /\ genres' = genres
                /\ DOMAIN movies' = DOMAIN movies \ {m}
                /\ \A o \in DOMAIN movies' : movies'[o] = movies[o]
                /\ DOMAIN ratings' = {r \in DOMAIN ratings : ratings[r].movie_id # m}
                /\ \A r \in DOMAIN ratings' : ratings'[r] = ratings[r]
                /\ {l \in movie_genres' : l[1] # m} = {l \in movie_genres : l[1] # m}
      ]_vars

\* a movie was deleted, its director is still stored, and another movie still
\* has its rating and its genre
C5_Witness ==
    /\ last.op = "delete_movie"
    /\ last.outcome = "ok"
    /\ Cardinality(DOMAIN ratings) < seq.ratings
    /\ DOMAIN directors # {}
    /\ DOMAIN genres # {}
    /\ \E o \in DOMAIN movies :
         /\ RatingsOf(DB, o) # {}
         /\ \E g \in DOMAIN genres : <<o, g>> \in movie_genres

----------------------------------------------------------------------------
(* Directors: create, rename, delete *)

\* names as given by a caller: plain, with a leading blank, in the other
\* case, blank
NameInputs == {<<"a">>, <<" ", "a">>, <<"A">>, <<" ">>}

\* birth years: absent, 0, below the range, inside it
BirthYearInputs == {None, Some(0), Some(1700), Some(1900)}

NextDirectors ==
    \/ \E n \in NameInputs, y \in BirthYearInputs : create_director(n, y, None)
    \/ \E d \in DirectorIds, n \in {None} \cup {Some(x) : x \in NameInputs},
          y \in BirthYearInputs :
          update_director(d, n, y, None)
    \/ \E d \in DirectorIds : delete_director(d)

SpecDirectors == Init /\ [][NextDirectors]_vars

\* a birth year that passes validation when given: absent or in 1800..2100
ValidBirthYear(y) == IsNone(y) \/ (1800 <= Val(y) /\ Val(y) <= 2100)

TablesUnchanged == UNCHANGED <<directors, genres, movies, movie_genres, ratings>>

\* C6 as claimed: create_director with a name whose trimmed form is the name
\* of an existing director, and update_director renaming a director to the
\* trimmed name of a different director, fail with AlreadyExistsError and
\* change nothing; renaming a director to its own current name succeeds.
C6_DuplicateNameRejected_AsClaimed ==
    [][ /\ \A n \in NameInputs, y \in BirthYearInputs :
             (/\ last'.op = "create_director"
              /\ \E e \in DOMAIN directors : directors[e].name = strip(n)
              /\ create_director(n, y, None))
                => (last'.outcome = "AlreadyExistsError" /\ TablesUnchanged)
        /\ \A d \in DOMAIN directors, n \in NameInputs, y \in BirthYearInputs :
             (/\ last'.op = "update_director"
              /\ last'.id = d
              /\ \E e \in DOMAIN directors \ {d} : directors[e].name = strip(n)
              /\ update_director(d, Some(n), y, None))
                => (last'.outcome = "AlreadyExistsError" /\ TablesUnchanged)
        /\ \A d \in DOMAIN directors, n \in NameInputs, y \in BirthYearInputs :
             (/\ last'.op = "update_director"
              /\ last'.id = d
              /\ directors[d].name = strip(n)
              /\ update_director(d, Some(n), y, None))
                => last'.outcome = "ok"
      ]_vars

\* C6, amended: create_director with a non-blank name and a birth year that
\* is absent or in 1800..2100, whose trimmed name is the name of an existing
\* director, fails with AlreadyExistsError and changes nothing; so does
\* update_director renaming a director to the trimmed name of a different
\* director; renaming a director to its own current name, with a birth year
\* that is absent or in 1800..2100, succeeds and keeps the name.
C6_DuplicateNameRejected ==
    [][ /\ \A n \in NameInputs, y \in BirthYearInputs :
             (/\ last'.op = "create_director"
              /\ strip(n) # <<>>
              /\ ValidBirthYear(y)
              /\ \E e \in DOMAIN directors : directors[e].name = strip(n)
              /\ create_director(n, y, None))
                => (last'.outcome = "AlreadyExistsError" /\ TablesUnchanged)
        /\ \A d \in DOMAIN directors, n \in NameInputs, y \in BirthYearInputs :
             (/\ last'.op = "update_director"
              /\ last'.id = d
              /\ \E e \in DOMAIN directors \ {d} : directors[e].name = strip(n)
              /\ update_director(d, Some(n), y, None))
                => (last'.outcome = "AlreadyExistsError" /\ TablesUnchanged)
        /\ \A d \in DOMAIN directors, n \in NameInputs, y \in BirthYearInputs :
             (/\ last'.op = "update_director"
              /\ last'.id = d
              /\ ValidBirthYear(y)
              /\ directors[d].name = strip(n)
              /\ update_director(d, Some(n), y, None))
                => (last'.outcome = "ok" /\ directors'[d].name = directors[d].name)
      ]_vars

\* a create_director was refused as a duplicate while two directors are stored
C6_Witness ==
    /\ last.op = "create_director"
    /\ last.outcome = "AlreadyExistsError"
    /\ Cardinality(DOMAIN directors) = 2

----------------------------------------------------------------------------
(* Genres: create, rename, delete *)

NextGenres ==
    \/ \E n \in NameInputs : create_genre(n, None)
    \/ \E g \in GenreIds, n \in {None} \cup {Some(x) : x \in NameInputs},
          t \in {None, Some(<<"d">>)} :
          update_genre(g, n, t)
    \/ \E g \in GenreIds : delete_genre(g)

SpecGenres == Init /\ [][NextGenres]_vars

\* C7: if a genre named N exists, create_genre with a name that differs from
\* N only in letter case is rejected with AlreadyExistsError and no second
\* genre row is stored.
C7_CaseInsensitiveDuplicateRejected ==
    [][ \A n \in NameInputs :
          (/\ last'.op = "create_genre"
           /\ \E g \in DOMAIN genres :
                genres[g].name # n /\ lower(genres[g].name) = lower(n)
           /\ create_genre(n, None))
             => (last'.outcome = "AlreadyExistsError" /\ genres' = genres)
      ]_vars

----------------------------------------------------------------------------
(* Movies: create_movie on a store of directors, genres and movies *)

\* a release year that passes validation when given: absent or in 1888..2100
ValidReleaseYear(y) == IsNone(y) \/ (1888 <= Val(y) /\ Val(y) <= 2100)

TitleInputs == {<<"a">>, <<" ", "a">>, <<" ">>}

\* release years: absent, below the range, inside it
ReleaseYearInputs == {None, Some(1800), Some(1960)}

\* genre id lists of a request
GenreIdsInputs == {<<>>, <<1>>, <<1, 2>>}

\* release years the MovieCreate schema lets through to the controller
SchemaReleaseYearInputs == {y \in ReleaseYearInputs : ValidReleaseYear(y)}

NextMovies ==
    \/ \E n \in {<<"a">>, <<"A">>} : create_director(n, None, None)
    \/ \E n \in {<<"a">>, <<"A">>} : create_genre(n, None)
    \/ \E d \in DirectorIds : repo_create_movie(<<"b">>, Some(d), None, None)
    \/ \E t \in TitleInputs, d \in DirectorIds, y \in ReleaseYearInputs,
          g \in {None} \cup {Some(x) : x \in GenreIdsInputs} :
          create_movie(t, d, y, None, g)
    \/ \E t \in TitleInputs, d \in DirectorIds, y \in SchemaReleaseYearInputs,
          g \in GenreIdsInputs :
          post_movie(t, d, y, None, g)

SpecMovies == Init /\ [][NextMovies]_vars

\* C8: create_movie with a non-blank title, the id of an existing director,
\* a release year absent or in 1888..2100 and a list of ids of existing
\* genres succeeds: exactly one new movie is stored, with the trimmed title,
\* that director and exactly those genres, and get_movie_with_details
\* returns it.
C8_CreateMovieSucceeds ==
    [][ \A t \in TitleInputs, d \in DOMAIN directors, y \in ReleaseYearInputs,
           g \in GenreIdsInputs :
          (/\ last'.op = "create_movie"
           /\ last'.id = d
           /\ strip(t) # <<>>
           /\ ValidReleaseYear(y)
           /\ Range(g) \subseteq DOMAIN genres
           /\ create_movie(t, d, y, None, Some(g)))
             => LET detail == MovieService_get_movie_with_details(DB', last'.ret)
                IN  /\ last'.outcome = "ok"
                    /\ DOMAIN movies' = DOMAIN movies \cup {last'.ret}
                    /\ last'.ret \notin DOMAIN movies
                    /\ \A m \in DOMAIN movies : movies'[m] = movies[m]
                    /\ detail.outcome = "ok"
                    /\ Val(detail.movie).title = strip(t)
                    /\ Val(detail.movie).director_id = Some(d)
                    /\ detail.genres = Range(g)
      ]_vars

\* C9: create_movie with a director_id that references no director fails
\* with a validation outcome (ValidationError, on director_id when the title
\* is not blank; the 422 envelope from POST /movies) and the stored movies
\* are unchanged.
C9_UnknownDirectorRejected ==
    [][ /\ \A t \in TitleInputs, d \in DirectorIds \ DOMAIN directors,
              y \in ReleaseYearInputs, g \in {None} \cup {Some(x) : x \in GenreIdsInputs} :
             (/\ last'.op = "create_movie"
              /\ last'.id = d
              /\ create_movie(t, d, y, None, g))
                => /\ last'.outcome = "ValidationError"
                   /\ strip(t) # <<>> => last'.field = "director_id"
                   /\ movies' = movies
        /\ \A t \in TitleInputs, d \in DirectorIds \ DOMAIN directors,
              y \in SchemaReleaseYearInputs, g \in GenreIdsInputs :
             (/\ last'.op = "post_movie"
              /\ last'.id = d
              /\ post_movie(t, d, y, None, g))
                => /\ last'.outcome = "failure"
                   /\ last'.field = "422"
                   /\ movies' = movies
      ]_vars

\* create_movie was refused for its director_id while movies of another,
\* existing director are stored
C9_Witness ==
    /\ last.op = "create_movie"
    /\ last.outcome = "ValidationError"
    /\ last.field = "director_id"
    /\ last.id \notin DOMAIN directors
    /\ DOMAIN directors # {}
    /\ DOMAIN movies # {}

\* C10: create_movie with an otherwise valid request whose genre_ids hold an
\* id of no genre fails with ValidationError before any write: no new movie
\* row and no new movie-genre link.
C10_UnknownGenreRejectedBeforeWrite ==
    [][ \A t \in TitleInputs, d \in DOMAIN directors, y \in ReleaseYearInputs,
           g \in GenreIdsInputs :
          (/\ last'.op = "create_movie"
           /\ last'.id = d
           /\ strip(t) # <<>>
           /\ ValidReleaseYear(y)
           /\ ~(Range(g) \subseteq DOMAIN genres)
           /\ create_movie(t, d, y, None, Some(g)))
             => /\ last'.outcome = "ValidationError"
                /\ movies' = movies
                /\ movie_genres' = movie_genres
      ]_vars

----------------------------------------------------------------------------
(* Genre re-assignment on a store of movies and genres *)

\* genre id lists: empty, one id, two ids, an id twice, the other order
GenreListInputs == {<<>>, <<1>>, <<2>>, <<1, 2>>, <<2, 1>>, <<1, 1>>}

NextGenreLinks ==
    \/ \E n \in {<<"a">>, <<"A">>} : create_genre(n, None)
    \/ repo_create_movie(<<"a">>, None, None, None)
    \/ \E m \in MovieIds, g \in GenreListInputs : update_movie_genres(m, g)
    \/ \E g \in GenreIds : delete_genre(g)

SpecGenreLinks == Init /\ [][NextGenreLinks]_vars

\* the genre ids linked to movie m in the table movie_genres
GenresOf(links, m) == {l[2] : l \in {k \in links : k[1] = m}}

\* C11: after update_movie_genres(m, ids) succeeds the genres attached to m
\* are exactly the ids given (nothing of the previous set is kept unless
\* given again) and the links of every other movie are unchanged; a list that
\* would store a new (movie, genre) pair twice does not succeed: it ends in
\* DatabaseError with the links unchanged.
C11_GenresReplaced ==
    [][ \A m \in MovieIds, g \in GenreListInputs :
          (/\ last'.op = "update_movie_genres"
           /\ last'.id = m
           /\ update_movie_genres(m, g))
             => /\ last'.outcome = "ok" =>
                     /\ GenresOf(movie_genres', m) = Range(g)
                     /\ {l \in movie_genres' : l[1] # m} = {l \in movie_genres : l[1] # m}
                /\ (/\ m \in DOMAIN movies
                    /\ Range(g) \subseteq DOMAIN genres
                    /\ \E i, j \in DOMAIN g :
                          i # j /\ g[i] = g[j] /\ <<m, g[i]>> \notin movie_genres)
                     => (last'.outcome = "DatabaseError" /\ movie_genres' = movie_genres)
      ]_vars

\* a re-assignment succeeded that left the movie with genre 2 only, while
\* another movie holds both genres
C11_Witness ==
    /\ last.op = "update_movie_genres"
    /\ last.outcome = "ok"
    /\ GenresOf(movie_genres, last.id) = {2}
    /\ \E m \in DOMAIN movies : m # last.id /\ GenresOf(movie_genres, m) = {1, 2}

----------------------------------------------------------------------------
(* Partial updates of the first director, genre and movie of a store *)

\* the arguments of one update_director call
DirectorPatchInputs ==
    {[name |-> Some(<<" ", "b">>), birth_year |-> None, description |-> Some(<<"d">>)],
     [name |-> None, birth_year |-> Some(1900), description |-> None],
     [name |-> None, birth_year |-> None, description |-> None],
     [name |-> Some(<<"A">>), birth_year |-> Some(1700), description |-> None]}

\* the arguments of one update_genre call
GenrePatchInputs ==
    {[name |-> Some(<<"b", " ">>), description |-> None],
     [name |-> None, description |-> Some(<<"d">>)],
     [name |-> None, description |-> None],
     [name |-> Some(<<"A">>), description |-> None]}

\* the arguments of one update_movie call
MoviePatchInputs ==
    {[title |-> Some(<<" ", "b">>), director_id |-> None, release_year |-> Some(1960),
      cast |-> None, genre_ids |-> Some(<<1>>)],
     [title |-> None, director_id |-> Some(2), release_year |-> None,
      cast |-> Some(<<"c">>), genre_ids |-> None],
     [title |-> None, director_id |-> None, release_year |-> None,
      cast |-> None, genre_ids |-> None],
     [title |-> None, director_id |-> None, release_year |-> None,
      cast |-> None, genre_ids |-> Some(<<>>)],
     [title |-> None, director_id |-> None, release_year |-> Some(1800),
      cast |-> Some(<<"c">>), genre_ids |-> None]}

\* the entity the update calls address
UpdateTargets == {1}

NextUpdates ==
    \/ \E n \in {<<"a">>, <<"A">>} : create_director(n, None, None)
    \/ \E n \in {<<"a">>, <<"A">>} : create_genre(n, None)
    \/ repo_create_movie(<<"a">>, Some(1), None, None)
    \/ \E d \in UpdateTargets, p \in DirectorPatchInputs :
          update_director(d, p.name, p.birth_year, p.description)
    \/ \E g \in UpdateTargets, p \in GenrePatchInputs :
          update_genre(g, p.name, p.description)
    \/ \E m \in UpdateTargets, p \in MoviePatchInputs :
          update_movie(m, p.title, p.director_id, p.release_year, p.cast, p.genre_ids)

SpecUpdates == Init /\ [][NextUpdates]_vars

\* the value of a field after a partial update: kept when nothing is given
Given(old, given, new) == IF IsNone(given) THEN old ELSE new

\* every row of the table but row id is as before, and no row came or went
OthersUnchanged(before, after, id) ==
    /\ DOMAIN after = DOMAIN before
    /\ \A i \in DOMAIN before \ {id} : after[i] = before[i]

\* C12: update_director, update_genre and update_movie on an existing entity
\* with valid arguments (a name or title that is not blank and, for directors
\* and genres, not the trimmed name of another one; a year in its range; ids
\* of existing directors and genres, no genre id twice) succeed; every field
\* not given keeps its value, every field given takes the new value (names
\* and titles trimmed, the genre set replaced), and no other row changes.
C12_PartialUpdate ==
    [][ /\ \A d \in DOMAIN directors, p \in DirectorPatchInputs :
             (/\ last'.op = "update_director"
              /\ last'.id = d
              /\ IsNone(p.name) \/ strip(Val(p.name)) # <<>>
              /\ IsNone(p.name) \/ \A e \in DOMAIN directors \ {d} :
                                      directors[e].name # strip(Val(p.name))
              /\ ValidBirthYear(p.birth_year)
              /\ update_director(d, p.name, p.birth_year, p.description))
                => /\ last'.outcome = "ok"
                   /\ OthersUnchanged(directors, directors', d)
                   /\ directors'[d] =
                        [name |-> Given(directors[d].name, p.name, strip(Val(p.name))),
                         birth_year |-> Given(directors[d].birth_year, p.birth_year, p.birth_year),
                         description |-> Given(directors[d].description, p.description,
                                               p.description)]
                   /\ UNCHANGED <<genres, movies, movie_genres, ratings>>
        /\ \A g \in DOMAIN genres, p \in GenrePatchInputs :
             (/\ last'.op = "update_genre"
              /\ last'.id = g
              /\ IsNone(p.name) \/ strip(Val(p.name)) # <<>>
              /\ IsNone(p.name) \/ \A e \in DOMAIN genres \ {g} :
                                      genres[e].name # strip(Val(p.name))
              /\ update_genre(g, p.name, p.description))
                => /\ last'.outcome = "ok"
                   /\ OthersUnchanged(genres, genres', g)
                   /\ genres'[g] =
                        [name |-> Given(genres[g].name, p.name, strip(Val(p.name))),
                         description |-> Given(genres[g].description, p.description,
                                               p.description)]
                   /\ UNCHANGED <<directors, movies, movie_genres, ratings>>
        /\ \A m \in DOMAIN movies, p \in MoviePatchInputs :
             (/\ last'.op = "update_movie"
              /\ last'.id = m
              /\ IsNone(p.title) \/ strip(Val(p.title)) # <<>>
              /\ IsNone(p.director_id) \/ Val(p.director_id) \in DOMAIN directors
              /\ ValidReleaseYear(p.release_year)
              /\ IsNone(p.genre_ids) \/
                   (/\ Range(Val(p.genre_ids)) \subseteq DOMAIN genres
                    /\ Cardinality(Range(Val(p.genre_ids))) = Len(Val(p.genre_ids)))
              /\ update_movie(m, p.title, p.director_id, p.release_year, p.cast, p.genre_ids))
                => /\ last'.outcome = "ok"
                   /\ OthersUnchanged(movies, movies', m)
                   /\ movies'[m] =
                        [title |-> Given(movies[m].title, p.title, strip(Val(p.title))),
                         director_id |-> Given(movies[m].director_id, p.director_id,
                                               p.director_id),
                         release_year |-> Given(movies[m].release_year, p.release_year,
                                                p.release_year),
                         cast |-> Given(movies[m].cast, p.cast, p.cast)]
                   /\ GenresOf(movie_genres', m) =
                        Given(GenresOf(movie_genres, m), p.genre_ids, Range(Val(p.genre_ids)))
                   /\ {l \in movie_genres' : l[1] # m} = {l \in movie_genres : l[1] # m}
                   /\ UNCHANGED <<directors, genres, ratings>>
      ]_vars

\* after an update_movie that gave no title, movie 1 still has the title of
\* an earlier update, the cast of this one, and a second movie is stored
C12_Witness ==
    /\ last.op = "update_movie"
    /\ last.outcome = "ok"
    /\ 2 \in DOMAIN movies
    /\ movies[1].title = <<"b">>
    /\ movies[1].release_year = Some(1960)
    /\ movies[1].director_id = Some(2)
    /\ movies[1].cast = Some(<<"c">>)
    /\ GenresOf(movie_genres, 1) = {1}

----------------------------------------------------------------------------
(* Rating statistics, under SpecRatings *)

\* C13: for every stored movie get_movie_rating_stats returns count = the
\* number of its ratings; with ratings, min and max are the smallest and the
\* largest score and average is the sum of the scores over count; with no
\* rating, count is 0 and average, min and max are None.
C13_RatingStats ==
    \A m \in DOMAIN movies :
       LET r == RatingService_get_movie_rating_stats(DB, m)
           mine == {i \in DOMAIN ratings : ratings[i].movie_id = m}
           scores == {ratings[i].score : i \in mine}
       IN  /\ r.outcome = "ok"
           /\ r.stats.count = Cardinality(mine)
           /\ mine = {} =>
                /\ r.stats.count = 0
                /\ r.stats.average = None
                /\ r.stats.min = None
                /\ r.stats.max = None
           /\ mine # {} =>
                /\ ~IsNone(r.stats.min) /\ ~IsNone(r.stats.max) /\ ~IsNone(r.stats.average)
                /\ Val(r.stats.min) \in scores /\ \A x \in scores : Val(r.stats.min) <= x
                /\ Val(r.stats.max) \in scores /\ \A x \in scores : x <= Val(r.stats.max)
                /\ Val(r.stats.average).num * Cardinality(mine)
                     = SumScores(ratings, mine) * Val(r.stats.average).den

\* one movie has three ratings with scores from 8 to 10 while another movie
\* has none, and the statistics of the two differ accordingly
C13_Witness ==
    \E m, n \in DOMAIN movies :
       /\ {ratings[i].score : i \in RatingsOf(DB, m)} = {8, 9, 10}
       /\ RatingsOf(DB, n) = {}
       /\ get_movie_rating_stats(DB, m).min = Some(8)
       /\ get_movie_rating_stats(DB, m).max = Some(10)
       /\ get_movie_rating_stats(DB, n).count = 0

----------------------------------------------------------------------------
(* The movie list on a store of movies, some of them in a genre *)

\* the largest page number and page size requested
MaxPage == 3

MaxPageSize == 2

\* title queries: none, one matching in the same case, one in the other case
TitleQueryInputs == {None, Some(<<"a">>), Some(<<"B">>)}

\* release_year queries
YearQueryInputs == {None, Some(1960)}

\* genre queries: none, the stored genre in the other case, no stored genre
GenreQueryInputs == {None, Some(<<"A">>), Some(<<"b">>)}

NextLists ==
    \/ create_genre(<<"a">>, None)
    \/ \E p \in {[title |-> <<"a">>, year |-> Some(1960)],
                 [title |-> <<"b">>, year |-> Some(1961)]} :
          repo_create_movie(p.title, None, p.year, None)
    \/ \E m \in MovieIds : update_movie_genres(m, <<1>>)
    \/ \E t \in TitleQueryInputs, y \in YearQueryInputs, g \in GenreQueryInputs,
          page \in 1..MaxPage, page_size \in 1..MaxPageSize :
          get_movies(t, y, g, page, page_size)

SpecLists == Init /\ [][NextLists]_vars

\* movie m satisfies every filter the request req supplies
Satisfies(m, req) ==
    /\ TruthyStr(req.title) => Contains(lower(movies[m].title), lower(Val(req.title)))
    /\ ~IsNone(req.release_year) => movies[m].release_year = req.release_year
    /\ TruthyStr(req.genre) =>
         \E g \in DOMAIN genres :
            /\ lower(genres[g].name) = lower(Val(req.genre))
            /\ <<m, g>> \in movie_genres

\* the stored movies that satisfy the filters of req
MatchingMovies(req) == {m \in DOMAIN movies : Satisfies(m, req)}

\* C14: the items of a page of the movie list are the rows at positions
\* (page-1)*page_size .. page*page_size-1 of the full title-ordered sequence
\* of the movies matching the request's filters.
C14_PageOfMatchingRows ==
    last.op = "get_movies" =>
        last.ret.items = Page(ByTitle(DB, MatchingMovies(last.id)),
                              (last.id.page - 1) * last.id.page_size, last.id.page_size)

\* C15: total_items of the movie list is the same for every page of the same
\* request and is the number of stored movies or of the movies matching the
\* request's filters.
C15_TotalItemsSameOnEveryPage ==
    last.op = "get_movies" =>
        /\ \A p \in 1..MaxPage :
              Controller_get_movies(DB, last.id.title, last.id.release_year, last.id.genre,
                                    p, last.id.page_size).total_items
                 = last.ret.total_items
        /\ last.ret.total_items
              \in {Cardinality(DOMAIN movies), Cardinality(MatchingMovies(last.id))}

\* C20: every movie the movie list returns satisfies every filter of the
\* request, whatever the combination of title, release_year and genre.
C20_ItemsSatisfyFilters ==
    last.op = "get_movies" =>
        \A i \in DOMAIN last.ret.items : Satisfies(last.ret.items[i], last.id)

----------------------------------------------------------------------------
(* HTTP status codes of the director routes and of DELETE /movies/{id} *)

NextHttp ==
    \/ \E n \in {<<"a">>, <<"A">>} : http_create_director(n, None, None)
    \/ \E d \in DirectorIds : http_get_director(d)
    \/ \E d \in DirectorIds, n \in {Some(<<"a">>), Some(<<"b">>)},
          y \in {None, Some(1900)} :
          http_update_director(d, n, y, None)
    \/ \E d \in DirectorIds : http_delete_director(d)
    \/ \E d \in DirectorIds : repo_create_movie(<<"a">>, Some(d), None, None)
    \/ \E m \in MovieIds : http_delete_movie(m)

SpecHttp == Init /\ [][NextHttp]_vars

\* C16: a failure response has the status code of its error envelope (404,
\* 409, 422, 500); a successful create is answered with 201, a successful
\* delete with 204 and no body, a successful read or update with 200.
C16_StatusMatchesOutcome ==
    /\ last.op \in {"http_create_director", "http_get_director", "http_update_director",
                    "http_delete_director", "http_delete_movie"}
         => /\ last.outcome = "failure" => last.ret = last.field
            /\ last.outcome = "failure" => last.field \in {"404", "409", "422", "500"}
    /\ (last.op = "http_create_director" /\ last.outcome # "failure") => last.ret = "201"
    /\ (last.op \in {"http_get_director", "http_update_director"} /\ last.outcome # "failure")
         => last.ret = "200"
    /\ (last.op \in {"http_delete_director", "http_delete_movie"} /\ last.outcome # "failure")
         => (last.ret = "204" /\ last.outcome = "no_content")

----------------------------------------------------------------------------
(* Requests and their storage sessions *)

\* the routes requested and their path parameter
RouteInputs == {"create_movie_rating", "get_movie", "delete_movie", "get_director"}

NextSessions ==
    \/ repo_create_movie(<<"a">>, None, None, None)
    \/ \E route \in RouteInputs, arg \in MovieIds,
          body \in {[kind |-> "absent", v |-> 0], [kind |-> "int", v |-> 9]} :
          receive(route, arg, body)
    \/ resolve_dependency
    \/ handle
    \/ teardown

SpecSessions == Init /\ [][NextSessions]_vars

\* a request, once taken up, is carried through: its dependencies are
\* resolved, its route function runs, its dependencies are torn down
SpecSessionsFair ==
    /\ SpecSessions
    /\ WF_vars(resolve_dependency)
    /\ WF_vars(handle)
    /\ WF_vars(teardown)

\* C17: a request acquires exactly one storage session and every service call
\* made while handling it uses that session.
C17_OneSessionPerRequest ==
    request.pc \in {"handler", "teardown", "done"} =>
        /\ Cardinality(Range(request.acquired)) = 1
        /\ request.used \subseteq Range(request.acquired)
        /\ Cardinality(request.used) <= 1

\* C18: every session acquired for a request is eventually closed, however
\* the route function ended, and no session is open once its request is done.
C18_SessionsClosed ==
    /\ [](request.pc = "done" => \A i \in DOMAIN sessions : sessions[i] = "closed")
    /\ \A i \in 1..MaxSessions :
          (i \in DOMAIN sessions /\ sessions[i] = "open")
             ~> (i \in DOMAIN sessions /\ sessions[i] = "closed")

\* a request that an exception ended is done and its session, the third one
\* acquired, is closed like the two of the request before it
C18_Witness ==
    /\ request.pc = "done"
    /\ request.exit = "raised"
    /\ Len(sessions) = 3
    /\ \A i \in DOMAIN sessions : sessions[i] = "closed"

----------------------------------------------------------------------------
(* Writes whose commit the storage engine fails *)

\* A write that got as far as db.commit() with result r.  When the storage
\* engine does not take the commit (connectivity failure, driver error),
\* commit raises: a write that wraps it in try / except Exception runs
\* db.rollback() and raises DatabaseError (guarded); a write without the
\* try lets the driver's error leave the call with no rollback.  The result
\* carries the transaction of the session: "failed" when a commit failed and
\* no rollback followed.
commit(db, r, storage_up, guarded) ==
    IF r.outcome = "ok" /\ ~storage_up
      THEN IF guarded
             THEN Err(db, "DatabaseError", "") @@ [transaction |-> "none"]
             ELSE Err(db, "OperationalError", "") @@ [transaction |-> "failed"]
      ELSE r @@ [transaction |-> IF r.outcome = "IntegrityError" THEN "failed" ELSE "none"]

\* The write op(id, ...) ends with result r on a session of its own.
Write(op, id, r) ==
    /\ Apply(op, id, r)
    /\ transaction' = r.transaction
    /\ UNCHANGED <<sessions, request, inflight>>

\* BaseRepository.create
BaseRepository_create(t, row, storage_up) ==
    Write("create", 0, commit(DB, repo_create(DB, t, row), storage_up, TRUE))

\* BaseRepository.update
BaseRepository_update(t, id, obj_in, storage_up) ==
    Write("update", id, commit(DB, repo_update(DB, t, id, obj_in), storage_up, TRUE))

\* BaseRepository.delete
BaseRepository_delete(t, id, storage_up) ==
    Write("delete", id, commit(DB, repo_delete(DB, t, id), storage_up, TRUE))

\* MovieRepository.update_movie_genres
MovieRepository_update_movie_genres_write(movie_id, genre_ids, storage_up) ==
    Write("update_movie_genres", movie_id,
          commit(DB, MovieRepository_update_movie_genres(DB, movie_id, genre_ids),
                 storage_up, TRUE))

\* RatingService.create_rating: add, commit, refresh outside any try
RatingService_create_rating_write(movie_id, score, storage_up) ==
    Write("create_rating", movie_id,
          commit(DB, RatingService_create_rating(DB, movie_id, score), storage_up, FALSE))

\* RatingService.update_rating: assignment, commit, refresh outside any try
RatingService_update_rating_write(rating_id, score, storage_up) ==
    Write("update_rating", rating_id,
          commit(DB, RatingService_update_rating(DB, rating_id, score), storage_up, FALSE))

\* the rows and patches written
WriteRowInputs ==
    {[title |-> <<"a">>, director_id |-> None, release_year |-> None, cast |-> None],
     [title |-> <<"b">>, director_id |-> Some(1), release_year |-> None, cast |-> None]}

WritePatchInputs ==
    {[title |-> Some(<<"b">>), cast |-> None]}

NextWrites ==
    \/ \E row \in WriteRowInputs, up \in BOOLEAN : BaseRepository_create("movies", row, up)
    \/ \E up \in BOOLEAN :
          BaseRepository_create("genres", [name |-> <<"x">>, description |-> None], up)
    \/ \E m \in MovieIds, obj_in \in WritePatchInputs, up \in BOOLEAN :
          BaseRepository_update("movies", m, obj_in, up)
    \/ \E m \in MovieIds, up \in BOOLEAN : BaseRepository_delete("movies", m, up)
    \/ \E m \in MovieIds, gs \in {<<>>, <<1>>, <<1, 1>>}, up \in BOOLEAN :
          MovieRepository_update_movie_genres_write(m, gs, up)
    \/ \E m \in MovieIds, score \in {0, 9}, up \in BOOLEAN :
          RatingService_create_rating_write(m, score, up)
    \/ \E r \in RatingIds, score \in {8, 11}, up \in BOOLEAN :
          RatingService_update_rating_write(r, score, up)

SpecWrites == Init /\ [][NextWrites]_vars

\* the errors a failed commit surfaces as
StorageErrors == {"DatabaseError", "OperationalError", "IntegrityError"}

\* C19: when a write (create, update, delete, genre re-assignment, rating
\* create, rating update) fails with a storage error at commit, the session's
\* transaction has been rolled back when the error leaves the call, and the
\* tables are as they were before the write.
C19_RolledBackOnCommitFailure ==
    [][(last'.op \in {"create", "update", "delete", "update_movie_genres",
                      "create_rating", "update_rating"}
        /\ last'.outcome \in StorageErrors)
         => (transaction' = "none" /\ TablesUnchanged)]_vars

----------------------------------------------------------------------------
(* Listing through the services with no order_by *)

\* the orders in which a query with no ORDER BY may return the rows ids
Orders(ids) == {o \in [1..Cardinality(ids) -> ids] : Range(o) = ids}

\* BaseRepository.get_all with order_by None: offset and limit on the rows
\* in whatever order the storage engine returns them
get_all(db, t, skip, limit) == {Page(o, skip, limit) : o \in Orders(DOMAIN db[t])}

\* The listing op(skip, limit) returns rows.
Listed(op, skip, limit, rows) ==
    /\ last' = [op |-> op, id |-> [skip |-> skip, limit |-> limit], outcome |-> "ok",
                field |-> "", ret |-> rows]
    /\ UNCHANGED <<directors, genres, movies, movie_genres, ratings, seq, sessions, request,
                   transaction, inflight>>

\* DirectorService.get_all_directors(skip, limit)
get_all_directors(skip, limit) ==
    \E rows \in get_all(DB, "directors", skip, limit) :
        Listed("get_all_directors", skip, limit, rows)

\* GenreService.get_all_genres(skip, limit)
get_all_genres(skip, limit) ==
    \E rows \in get_all(DB, "genres", skip, limit) :
        Listed("get_all_genres", skip, limit, rows)

\* MovieService.get_all_movies(skip, limit)
get_all_movies(skip, limit) ==
    Listed("get_all_movies", skip, limit, get_all_with_details(DB, skip, limit))

\* skip and limit of the listings
SkipInputs == {0, 1}

LimitInputs == {1, 2, 100}

NextOrder ==
    \/ \E n \in {<<"a">>, <<"b">>} : create_director(n, None, None)
    \/ \E n \in {<<"a">>, <<"b">>} : create_genre(n, None)
    \/ \E n \in {<<"a">>, <<"b">>} : repo_create_movie(n, None, None, None)
    \/ \E skip \in SkipInputs, limit \in LimitInputs : get_all_directors(skip, limit)
    \/ \E skip \in SkipInputs, limit \in LimitInputs : get_all_genres(skip, limit)
    \/ \E skip \in SkipInputs, limit \in LimitInputs : get_all_movies(skip, limit)

SpecOrder == Init /\ [][NextOrder]_vars

\* the natural key of row id as op lists it
NaturalKey(op, id) ==
    CASE op = "get_all_directors" -> directors[id].name
      [] op = "get_all_genres" -> genres[id].name
      [] op = "get_all_movies" -> movies[id].title

\* C21: a listing of directors, genres or movies with no order_by returns the
\* rows in ascending order of name (directors, genres) or title (movies).
C21_ListedByNaturalKey ==
    last.op \in {"get_all_directors", "get_all_genres", "get_all_movies"} =>
        \A i, j \in DOMAIN last.ret :
            i < j => ~StrLess(NaturalKey(last.op, last.ret[j]), NaturalKey(last.op, last.ret[i]))

----------------------------------------------------------------------------
(* Birth years *)

\* C22: create_director and update_director called with a birth year outside
\* 1800..2100 (and a name that is non-empty after trimming and not the name of
\* another director) fail with ValidationError on birth_year and change
\* nothing; every stored director has a birth year that is absent or in
\* 1800..2100.
C22_BirthYearInRange ==
    [][ /\ \A n \in NameInputs, y \in BirthYearInputs :
             (/\ last'.op = "create_director"
              /\ ~ValidBirthYear(y)
              /\ strip(n) # <<>>
              /\ ~\E e \in DOMAIN directors : directors[e].name = strip(n)
              /\ create_director(n, y, None))
                => (/\ last'.outcome = "ValidationError"
                    /\ last'.field = "birth_year"
                    /\ TablesUnchanged)
        /\ \A d \in DOMAIN directors, y \in BirthYearInputs :
             (/\ last'.op = "update_director"
              /\ last'.id = d
              /\ ~ValidBirthYear(y)
              /\ update_director(d, None, y, None))
                => (/\ last'.outcome = "ValidationError"
                    /\ last'.field = "birth_year"
                    /\ TablesUnchanged)
        /\ \A d \in DOMAIN directors' : ValidBirthYear(directors'[d].birth_year)
      ]_vars

----------------------------------------------------------------------------
(* Names and titles *)

\* C23: every stored director name, genre name and movie title is non-empty
\* after trimming, and a service create or update given a name that is empty
\* after trimming has failed with ValidationError.
C23_NamesNonEmpty ==
    /\ \A d \in DOMAIN directors : strip(directors[d].name) # <<>>
    /\ \A g \in DOMAIN genres : strip(genres[g].name) # <<>>
    /\ \A m \in DOMAIN movies : strip(movies[m].title) # <<>>

----------------------------------------------------------------------------
(* MovieService.search_movies with all its filters *)

\* order_by(Movie.release_year.desc()): the orders the rows ids may come in;
\* rows with a year by descending year, rows of equal year in any order, and
\* the rows with no year all before or all after them, as the engine sorts NULL
YearDescOrders(db, ids) ==
    LET dated == {m \in ids : ~IsNone(db.movies[m].release_year)}
    IN  {o \in Orders(ids) :
            /\ \A i, j \in DOMAIN o :
                  (i < j /\ o[i] \in dated /\ o[j] \in dated)
                     => Val(db.movies[o[i]].release_year) >= Val(db.movies[o[j]].release_year)
            /\ \/ \A i, j \in DOMAIN o : (o[i] \in dated /\ o[j] \notin dated) => i < j
               \/ \A i, j \in DOMAIN o : (o[i] \notin dated /\ o[j] \in dated) => i < j}

\* MovieRepository.get_by_director: the pages it may return
get_by_director(db, director_id, skip, limit) ==
    {Page(o, skip, limit) :
        o \in YearDescOrders(db, {m \in DOMAIN db.movies :
                                     db.movies[m].director_id = Some(director_id)})}

\* MovieRepository.get_by_year_range: the pages it may return
get_by_year_range(db, start_year, end_year, skip, limit) ==
    LET year(m) == db.movies[m].release_year
        found == {m \in DOMAIN db.movies :
                    IF TruthyInt(start_year) /\ TruthyInt(end_year)
                      THEN /\ ~IsNone(year(m))
                           /\ Val(year(m)) >= Val(start_year)
                           /\ Val(year(m)) <= Val(end_year)
                    ELSE IF TruthyInt(start_year)
                      THEN ~IsNone(year(m)) /\ Val(year(m)) >= Val(start_year)
                    ELSE IF TruthyInt(end_year)
                      THEN ~IsNone(year(m)) /\ Val(year(m)) <= Val(end_year)
                    ELSE TRUE}
    IN  {Page(o, skip, limit) : o \in YearDescOrders(db, found)}

\* MovieService.search_movies: the pages it may return
search_movies(db, title_query, director_id, genre_id, min_year, max_year, skip, limit) ==
    IF TruthyStr(title_query) THEN {search_by_title(db, Val(title_query), skip, limit)}
    ELSE IF TruthyInt(director_id) THEN get_by_director(db, Val(director_id), skip, limit)
    ELSE IF TruthyInt(genre_id) THEN {get_by_genre(db, Val(genre_id), skip, limit)}
    ELSE IF TruthyInt(min_year) \/ TruthyInt(max_year)
      THEN get_by_year_range(db, min_year, max_year, skip, limit)
    ELSE {get_all_with_details(db, skip, limit)}

\* MovieService.search_movies(...) with the default skip and limit
searched(title_query, director_id, genre_id, min_year, max_year) ==
    \E rows \in search_movies(DB, title_query, director_id, genre_id, min_year, max_year,
                              0, DefaultLimit) :
        /\ last' = [op |-> "search_movies",
                    id |-> [title_query |-> title_query, director_id |-> director_id,
                            genre_id |-> genre_id, min_year |-> min_year,
                            max_year |-> max_year],
                    outcome |-> "ok", field |-> "", ret |-> rows]
        /\ UNCHANGED <<directors, genres, movies, movie_genres, ratings, seq, sessions,
                       request, transaction, inflight>>

NextSearch ==
    \/ create_director(<<"a">>, None, None)
    \/ create_genre(<<"a">>, None)
    \/ \E p \in {[title |-> <<"a">>, director_id |-> Some(1), year |-> Some(1960)],
                 [title |-> <<"b">>, director_id |-> None, year |-> None]} :
          repo_create_movie(p.title, p.director_id, p.year, None)
    \/ \E m \in MovieIds : update_movie_genres(m, <<1>>)
    \/ \E t \in {None, Some(<<>>), Some(<<"a">>)}, d \in {None, Some(0), Some(1)},
          g \in {None, Some(1)}, lo \in {None, Some(0), Some(1950)},
          hi \in {None, Some(1970)} :
          searched(t, d, g, lo, hi)

SpecSearch == Init /\ [][NextSearch]_vars

\* the movies that the first supplied filter of request req selects, in the
\* order title_query, director_id, genre_id, year range
FirstSuppliedFilter(req) ==
    LET year(m) == movies[m].release_year
    IN  IF ~IsNone(req.title_query)
          THEN {m \in DOMAIN movies : ilike(movies[m].title, Val(req.title_query))}
        ELSE IF ~IsNone(req.director_id)
          THEN {m \in DOMAIN movies : movies[m].director_id = req.director_id}
        ELSE IF ~IsNone(req.genre_id)
          THEN {m \in DOMAIN movies : <<m, Val(req.genre_id)>> \in movie_genres}
        ELSE IF ~IsNone(req.min_year) \/ ~IsNone(req.max_year)
          THEN {m \in DOMAIN movies :
                  /\ ~IsNone(req.min_year)
                       => (~IsNone(year(m)) /\ Val(year(m)) >= Val(req.min_year))
                  /\ ~IsNone(req.max_year)
                       => (~IsNone(year(m)) /\ Val(year(m)) <= Val(req.max_year))}
        ELSE DOMAIN movies

\* C24: search_movies returns the movies selected by the first supplied filter
\* in the order title_query, director_id, genre_id, year range, ignoring the
\* other filters, and every movie when no filter is supplied.
C24_FirstSuppliedFilterOnly ==
    last.op = "search_movies" => Range(last.ret) = FirstSuppliedFilter(last.id)

----------------------------------------------------------------------------
(* Requests that interleave.  A service call reads and checks on the state *)
(* it sees; the write of its repository reaches the storage engine later,  *)
(* and the writes of other requests may commit in between.                 *)

\* how many requests are between their checks and their commit at once
MaxInflight == 2

\* the write a call ends with once its checks passed
WriteOf(op, kind, t, id, data) == [op |-> op, kind |-> kind, t |-> t, id |-> id, data |-> data]

\* add_rating on a storage engine that does not enforce the foreign key
add_rating_unenforced(db, row) ==
    LET id == db.seq.ratings + 1
    IN  Ok([db EXCEPT !.ratings = @ @@ (id :> row), !.seq.ratings = id], id)

\* RatingService.create_rating from db.add on: insert and commit outside any
\* try, so what the storage engine refuses leaves as the driver's error
add_rating(db, row) ==
    LET id == db.seq.ratings + 1
    IN  IF ~ConstraintsHold(db, "ratings", id, row)
          THEN Err(db, "IntegrityError", "")
          ELSE Ok([db EXCEPT !.ratings = @ @@ (id :> row), !.seq.ratings = id], id)

\* the write w reaches the storage engine on the state db
Committed(db, w) ==
    CASE w.kind = "create" -> repo_create(db, w.t, w.data)
      [] w.kind = "update" -> repo_update(db, w.t, w.id, w.data)
      [] w.kind = "add_rating" -> add_rating(db, w.data)

\* The checks of op(id, ...) ran on the state seen, where the whole call
\* would have returned r: a failed check ends the call, a passed one leaves
\* the write w in flight.
checked(op, id, r, w) ==
    IF r.outcome # "ok"
      THEN Call(op, id, r)
      ELSE /\ Len(inflight) < MaxInflight
           /\ inflight' = Append(inflight, w)
           /\ UNCHANGED <<directors, genres, movies, movie_genres, ratings, seq, last,
                          sessions, request, transaction>>

\* A write in flight commits, or fails at commit, on the state of that moment.
finish ==
    \E i \in DOMAIN inflight :
        LET w == inflight[i]
            r == Committed(DB, w)
        IN  /\ Apply(w.op, w.id, r)
            /\ transaction' = IF r.outcome = "IntegrityError" THEN "failed" ELSE "none"
            /\ inflight' = SubSeq(inflight, 1, i - 1) \o SubSeq(inflight, i + 1, Len(inflight))
            /\ UNCHANGED <<sessions, request>>

\* DirectorService.create_director up to the repository's create
begin_create_director(name, birth_year, description) ==
    checked("create_director", 0,
            DirectorService_create_director(DB, name, birth_year, description),
            WriteOf("create_director", "create", "directors", 0,
                    [name |-> strip(name), birth_year |-> birth_year,
                     description |-> description]))

\* DirectorService.update_director up to the repository's update
begin_update_director(director_id, name, birth_year, description) ==
    checked("update_director", director_id,
            DirectorService_update_director(DB, director_id, name, birth_year, description),
            WriteOf("update_director", "update", "directors", director_id,
                    [name |-> IF IsNone(name) THEN None ELSE Some(strip(Val(name))),
                     birth_year |-> birth_year, description |-> description]))

NextConcurrentDirectors ==
    \/ \E n \in {<<"a">>, <<"b">>, <<" ", "a">>} : begin_create_director(n, None, None)
    \/ \E d \in DirectorIds, n \in {<<"a">>, <<"b">>} :
          begin_update_director(d, Some(n), None, None)
    \/ finish

SpecConcurrentDirectors == Init /\ [][NextConcurrentDirectors]_vars

\* C25: no two stored directors have the same name, also when create_director
\* and update_director requests interleave between check and commit.
C25_DirectorNamesUnique ==
    \A d, e \in DOMAIN directors : d # e => directors[d].name # directors[e].name

----------------------------------------------------------------------------
(* Genres written by interleaved requests *)

\* GenreService.create_genre up to the repository's create
begin_create_genre(name, description) ==
    checked("create_genre", 0, GenreService_create_genre(DB, name, description),
            WriteOf("create_genre", "create", "genres", 0,
                    [name |-> strip(name), description |-> description]))

\* GenreService.update_genre up to the repository's update
begin_update_genre(genre_id, name, description) ==
    checked("update_genre", genre_id, GenreService_update_genre(DB, genre_id, name, description),
            WriteOf("update_genre", "update", "genres", genre_id,
                    [name |-> IF IsNone(name) THEN None ELSE Some(strip(Val(name))),
                     description |-> description]))

NextConcurrentGenres ==
    \/ \E n \in {<<"a">>, <<"b">>} : begin_create_genre(n, None)
    \/ \E g \in GenreIds, n \in {<<"a">>, <<"b">>} : begin_update_genre(g, Some(n), None)
    \/ finish

SpecConcurrentGenres == Init /\ [][NextConcurrentGenres]_vars

\* inflight without its i-th write
Removed(i) == SubSeq(inflight, 1, i - 1) \o SubSeq(inflight, i + 1, Len(inflight))

\* the name the genre write w sets
NameSet(w) == IF w.kind = "create" THEN w.data.name ELSE Val(w.data.name)

\* a genre other than the one w writes holds the name w sets
NameTaken(w) == \E g \in DOMAIN genres \ {w.id} : genres[g].name = NameSet(w)

\* C26: of the genre creates and renames that passed their uniqueness check
\* and then commit the same name, the first commit succeeds; a commit that
\* finds the name held by another genre fails with DatabaseError (not
\* AlreadyExistsError), is rolled back and changes nothing; no two genres
\* ever share a name.
C26_OneCommitWins ==
    [][ /\ \A i \in DOMAIN inflight :
             (inflight' = Removed(i) /\ NameTaken(inflight[i]))
                => (/\ last'.outcome = "DatabaseError"
                    /\ transaction' = "none"
                    /\ TablesUnchanged)
        /\ \A i \in DOMAIN inflight :
             (/\ inflight' = Removed(i)
              /\ ~NameTaken(inflight[i])
              /\ inflight[i].kind = "update" => inflight[i].id \in DOMAIN genres)
                => (/\ last'.outcome = "ok"
                    /\ genres'[last'.ret].name = NameSet(inflight[i]))
        /\ \A g, h \in DOMAIN genres' : g # h => genres'[g].name # genres'[h].name
      ]_vars

\* a genre write that had passed its check failed at commit because another
\* request had committed the same name in between
C26_Witness ==
    /\ last.op \in {"create_genre", "update_genre"}
    /\ last.outcome = "DatabaseError"
    /\ Cardinality(DOMAIN genres) >= 1
    /\ transaction = "none"

----------------------------------------------------------------------------
(* Ratings created while movies are deleted *)

\* RatingService.create_rating up to db.add
begin_create_rating(movie_id, score) ==
    checked("create_rating", movie_id, RatingService_create_rating(DB, movie_id, score),
            WriteOf("create_rating", "add_rating", "ratings", movie_id,
                    [movie_id |-> movie_id, score |-> score]))

NextConcurrentRatings ==
    \/ repo_create_movie(<<"a">>, None, None, None)
    \/ \E m \in MovieIds, score \in {0, 9} : begin_create_rating(m, score)
    \/ \E m \in MovieIds : delete_movie(m)
    \/ finish

SpecConcurrentRatings == Init /\ [][NextConcurrentRatings]_vars

\* C27: every stored rating references a stored movie, also when a movie is
\* deleted between the existence check and the commit of a create_rating;
\* that create_rating fails at commit and stores no rating.
C27_RatingsReferenceMovies ==
    [][ /\ \A i \in DOMAIN inflight :
             (inflight' = Removed(i) /\ inflight[i].id \notin DOMAIN movies)
                => (last'.outcome = "IntegrityError" /\ TablesUnchanged)
        /\ \A r \in DOMAIN ratings' : ratings'[r].movie_id \in DOMAIN movies'
      ]_vars

\* a create_rating passed its existence check, its movie was deleted, and its
\* commit failed while another movie's rating is stored
C27_Witness ==
    /\ last.op = "create_rating"
    /\ last.outcome = "IntegrityError"
    /\ last.id \notin DOMAIN movies
    /\ ratings # <<>>

----------------------------------------------------------------------------
(* update_movie with field changes and genres *)

\* field changes with a list of genre ids: genre 1 may exist, genre 9 never does
MovieChangeInputs ==
    {[title |-> Some(<<"b">>), director_id |-> None, release_year |-> Some(1999),
      cast |-> Some(<<"c">>), genre_ids |-> Some(<<1, 9>>)],
     [title |-> Some(<<"b">>), director_id |-> None, release_year |-> None,
      cast |-> None, genre_ids |-> Some(<<1>>)],
     [title |-> None, director_id |-> None, release_year |-> None,
      cast |-> None, genre_ids |-> Some(<<9>>)]}

NextMovieChanges ==
    \/ create_genre(<<"a">>, None)
    \/ \E t \in {<<"a">>, <<"b">>} : repo_create_movie(t, None, None, None)
    \/ \E m \in MovieIds : update_movie_genres(m, <<1>>)
    \/ \E m \in MovieIds, p \in MovieChangeInputs :
          update_movie(m, p.title, p.director_id, p.release_year, p.cast, p.genre_ids)

SpecMovieChanges == Init /\ [][NextMovieChanges]_vars

\* C28: update_movie on an existing movie with a genre_ids list naming a genre
\* that does not exist fails with ValidationError and leaves the movie's
\* title, director_id, release_year, cast and genres as they were.
C28_UnknownGenreLeavesMovie ==
    [][ \A m \in DOMAIN movies, p \in MovieChangeInputs :
            (/\ last'.op = "update_movie"
             /\ last'.id = m
             /\ \E g \in Range(Val(p.genre_ids)) : g \notin DOMAIN genres
             /\ update_movie(m, p.title, p.director_id, p.release_year, p.cast, p.genre_ids))
               => (/\ last'.outcome = "ValidationError"
                   /\ movies'[m] = movies[m]
                   /\ movie_genres' = movie_genres)
      ]_vars

----------------------------------------------------------------------------
(* Highest rated movies *)

\* func.avg(MovieRating.score) and func.count(MovieRating.id) of the group of
\* movie m, the average as the fraction num/den
Group(db, m) ==
    [movie |-> m, num |-> SumScores(db.ratings, RatingsOf(db, m)),
     den |-> Cardinality(RatingsOf(db, m))]

\* a.num/a.den >= b.num/b.den
AvgGeq(a, b) == a.num * b.den >= b.num * a.den

\* get_highest_rated without the HAVING clause
get_highest_rated_unfiltered(db, limit, min_ratings) ==
    LET grouped == {db.ratings[r].movie_id : r \in DOMAIN db.ratings}
        joined == grouped \cap DOMAIN db.movies
        sorted == {o \in Orders(joined) :
                     \A i, j \in DOMAIN o : i < j => AvgGeq(Group(db, o[i]), Group(db, o[j]))}
    IN  {[i \in DOMAIN Page(o, 0, limit) |-> Group(db, o[i])] : o \in sorted}

\* MovieRepository.get_highest_rated: the lists it may return.  The subquery
\* has one group per movie_id found in movie_ratings, HAVING keeps the groups
\* of at least min_ratings rows, the join pairs them with their movies, the
\* order is by average descending (equal averages in any order), then LIMIT.
get_highest_rated(db, limit, min_ratings) ==
    LET grouped == {db.ratings[r].movie_id : r \in DOMAIN db.ratings}
        having == {m \in grouped : Cardinality(RatingsOf(db, m)) >= min_ratings}
        joined == having \cap DOMAIN db.movies
        sorted == {o \in Orders(joined) :
                     \A i, j \in DOMAIN o : i < j => AvgGeq(Group(db, o[i]), Group(db, o[j]))}
    IN  {[i \in DOMAIN Page(o, 0, limit) |-> Group(db, o[i])] : o \in sorted}

\* MovieService.get_highest_rated_movies(limit, min_ratings)
get_highest_rated_movies(limit, min_ratings) ==
    \E rows \in get_highest_rated(DB, limit, min_ratings) :
        /\ last' = [op |-> "get_highest_rated_movies",
                    id |-> [limit |-> limit, min_ratings |-> min_ratings],
                    outcome |-> "ok", field |-> "", ret |-> rows]
        /\ UNCHANGED <<directors, genres, movies, movie_genres, ratings, seq, sessions,
                       request, transaction, inflight>>

NextHighestRated ==
    \/ repo_create_movie(<<"a">>, None, None, None)
    \/ \E m \in MovieIds, s \in {8, 9} : create_rating(m, s)
    \/ \E limit \in {0, 1, 2}, min_ratings \in {0, 1, 2} :
          get_highest_rated_movies(limit, min_ratings)

SpecHighestRated == Init /\ [][NextHighestRated]_vars

\* what C29 says of the movies returned: at most limit of them, no movie
\* twice, each with at least min_ratings ratings and paired with the mean of
\* its scores, in non-increasing order of the mean
ReturnedAreHighest(rows, req) ==
    /\ Len(rows) <= req.limit
    /\ \A i, j \in DOMAIN rows : i # j => rows[i].movie # rows[j].movie
    /\ \A i \in DOMAIN rows :
          /\ rows[i].movie \in DOMAIN movies
          /\ Cardinality(RatingsOf(DB, rows[i].movie)) >= req.min_ratings
          /\ rows[i].den > 0
          /\ rows[i].num * Cardinality(RatingsOf(DB, rows[i].movie))
               = SumScores(ratings, RatingsOf(DB, rows[i].movie)) * rows[i].den
    /\ \A i, j \in DOMAIN rows : i < j => AvgGeq(rows[i], rows[j])

\* movie m is left out only because limit movies with a mean at least its own
\* are returned
OmittedForLimit(rows, req, m) ==
    /\ Len(rows) = req.limit
    /\ \A i \in DOMAIN rows : AvgGeq(rows[i], Group(DB, m))

\* C29 as claimed: get_highest_rated(limit, min_ratings) returns at most limit
\* movies with at least min_ratings ratings each, with their means, in
\* non-increasing order of the mean, and every movie with at least min_ratings
\* ratings that is left out is left out for the limit.
C29_HighestRated_AsClaimed ==
    last.op = "get_highest_rated_movies" =>
        /\ ReturnedAreHighest(last.ret, last.id)
        /\ \A m \in DOMAIN movies \ {last.ret[i].movie : i \in DOMAIN last.ret} :
              Cardinality(RatingsOf(DB, m)) >= last.id.min_ratings
                 => OmittedForLimit(last.ret, last.id, m)

\* C29: get_highest_rated(limit, min_ratings) returns at most limit movies
\* with at least min_ratings ratings each, with their means, in non-increasing
\* order of the mean, and every movie with at least one rating and at least
\* min_ratings ratings that is left out is left out for the limit.
C29_HighestRated ==
    last.op = "get_highest_rated_movies" =>
        /\ ReturnedAreHighest(last.ret, last.id)
        /\ \A m \in DOMAIN movies \ {last.ret[i].movie : i \in DOMAIN last.ret} :
              (/\ RatingsOf(DB, m) # {}
               /\ Cardinality(RatingsOf(DB, m)) >= last.id.min_ratings)
                 => OmittedForLimit(last.ret, last.id, m)

\* two movies qualify with different means and the limit of 1 returns one
C29_Witness ==
    /\ last.op = "get_highest_rated_movies"
    /\ last.id = [limit |-> 1, min_ratings |-> 1]
    /\ Len(last.ret) = 1
    /\ \E m \in DOMAIN movies \ {last.ret[1].movie} :
          /\ RatingsOf(DB, m) # {}
          /\ ~AvgGeq(Group(DB, m), last.ret[1])

----------------------------------------------------------------------------
(* Popular genres *)

RECURSIVE ByName(_, _)
\* order_by(Genre.name): the genre ids as a sequence by ascending name (names
\* are unique)
ByName(db, ids) ==
    IF ids = {} THEN <<>>
    ELSE LET first == CHOOSE x \in ids : \A y \in ids \ {x} :
                         \/ StrLess(db.genres[x].name, db.genres[y].name)
                         \/ db.genres[x].name = db.genres[y].name /\ x < y
         IN  <<first>> \o ByName(db, ids \ {first})

\* func.count(Movie.id) of the group of genre g
movie_count(db, g) == Cardinality({l \in db.movie_genres : l[2] = g})

\* The rows of the grouped query of get_all_with_movie_counts, before offset
\* and limit: a genre (None in the group of the movies that have no genre)
\* with its movie count, by genre name.  outerjoin(Movie.genres) joins from
\* one side of the relationship: joined from the genres, every genre has a
\* row; joined from the movies, only the genres that have a movie do, and the
\* movies without a genre make one row with no genre, which sorts first or
\* last.
GenreCountRows(db) ==
    LET Row(g) == [genre |-> Some(g), movie_count |-> movie_count(db, g)]
        Rows(ids) == [i \in DOMAIN ByName(db, ids) |-> Row(ByName(db, ids)[i])]
        used == {g \in DOMAIN db.genres : movie_count(db, g) > 0}
        bare == {m \in DOMAIN db.movies : ~\E l \in db.movie_genres : l[1] = m}
        none == IF bare = {} THEN <<>>
                ELSE <<[genre |-> None, movie_count |-> Cardinality(bare)]>>
    IN  {Rows(DOMAIN db.genres), none \o Rows(used), Rows(used) \o none}

\* GenreRepository.get_all_with_movie_counts: the pages it may return
get_all_with_movie_counts(db, skip, limit) ==
    {Page(rows, skip, limit) : rows \in GenreCountRows(db)}

RECURSIVE SortedByCount(_)
\* list.sort(key=movie_count, reverse=True): by descending count, rows of
\* equal count in the order they had
SortedByCount(rows) ==
    IF rows = <<>> THEN <<>>
    ELSE LET top == CHOOSE i \in DOMAIN rows :
                       /\ \A j \in DOMAIN rows : rows[j].movie_count <= rows[i].movie_count
                       /\ \A j \in 1..(i - 1) : rows[j].movie_count < rows[i].movie_count
         IN  <<rows[top]>> \o SortedByCount(SubSeq(rows, 1, top - 1)
                                              \o SubSeq(rows, top + 1, Len(rows)))

\* GenreService.get_popular_genres: the lists it may return
GenreService_get_popular_genres(db, limit) ==
    {Page(SortedByCount(rows), 0, limit) : rows \in get_all_with_movie_counts(db, 0, limit)}

\* GenreService.get_popular_genres(limit)
get_popular_genres(limit) ==
    \E rows \in GenreService_get_popular_genres(DB, limit) :
        /\ last' = [op |-> "get_popular_genres", id |-> limit, outcome |-> "ok",
                    field |-> "", ret |-> rows]
        /\ UNCHANGED <<directors, genres, movies, movie_genres, ratings, seq, sessions,
                       request, transaction, inflight>>

NextPopular ==
    \/ \E n \in {<<"a">>, <<"b">>} : create_genre(n, None)
    \/ repo_create_movie(<<"a">>, None, None, None)
    \/ \E m \in MovieIds, gs \in {<<>>, <<1>>, <<2>>, <<1, 2>>} : update_movie_genres(m, gs)
    \/ \E limit \in {1, 2} : get_popular_genres(limit)

SpecPopular == Init /\ [][NextPopular]_vars

\* C30: get_popular_genres(limit) returns its rows in non-increasing order of
\* movie count, and no stored genre that is left out has a strictly higher
\* movie count than a genre returned.
C30_MostPopularReturned ==
    last.op = "get_popular_genres" =>
        /\ \A i, j \in DOMAIN last.ret :
              i < j => last.ret[i].movie_count >= last.ret[j].movie_count
        /\ \A g \in DOMAIN genres, i \in DOMAIN last.ret :
              (/\ ~IsNone(last.ret[i].genre)
               /\ \A j \in DOMAIN last.ret : last.ret[j].genre # Some(g))
                 => movie_count(DB, g) <= last.ret[i].movie_count

====
